---------------------------- MODULE Spec2Model ----------------------------
(***************************************************************************)
(* Model of the prompt collector: the heuristic AnalysisEngine, the        *)
(* SQLite-backed StorageManager and the InsightsGenerator.                 *)
(*                                                                         *)
(* Conventions.                                                            *)
(*  - Text is a TLA+ string; the JavaScript string operations the code     *)
(*    uses (includes, toLowerCase, split, match) are written out below.    *)
(*  - Scores are JavaScript numbers with at most two decimals; they are    *)
(*    kept as integers in hundredths inside the engine (10.0 is 1000) and  *)
(*    as integers in tenths once rounded (7.5 is 75), which is how a       *)
(*    quality score is stored.                                             *)
(*  - A mean of quality scores is kept as an exact fraction of tenths.     *)
(*  - A value that may be null or undefined is a tagged tuple (below).     *)
(***************************************************************************)
EXTENDS Integers, Sequences, FiniteSets, TLC

VARIABLES
    prompt,       \* engine: the text handed to analyzePrompt
    analysis,     \* engine: the PromptAnalysis returned for it
    prompts,      \* store: the rows of table prompts, in rowid order
    responses,    \* store: the rows of table responses, in rowid order
    insights,     \* store: the rows of table insights, in rowid order
    nextId,       \* the next identifier uuidv4() hands out
    now,          \* the clock behind CURRENT_TIMESTAMP
    result,       \* the outcome of the last direct call, as its caller sees it
    savedInput,   \* history: the record each savePrompt of this run was given
    analysed,     \* history: the ids an updatePromptAnalysis has changed
    miner,        \* each generateInsights call: its position and its locals
    calls,        \* each log_prompt or test-prompt call: position and locals
    server        \* MCPServer: its flag, components and start/shutdown calls

engineVars == <<prompt, analysis>>
storeVars == <<prompts, responses, insights, nextId, now>>
historyVars == <<savedInput, analysed>>
vars == <<prompt, analysis, prompts, responses, insights, nextId, now, result,
          savedInput, analysed, miner, calls, server>>

(***************************************************************************)
(* JavaScript and SQL values.  A value that may be null or undefined is a  *)
(* tagged tuple, so that null, undefined, numbers and strings can be told  *)
(* apart: <<"null">>, <<"undefined">>, <<"number", 75>>, <<"string", s>>.  *)
(***************************************************************************)
JsNull == <<"null">>
JsUndefined == <<"undefined">>
Num(n) == <<"number", n>>
Str(s) == <<"string", s>>
IsNum(v) == v[1] = "number"
IsStr(v) == v[1] = "string"
ValueOf(v) == v[2]

\* The falsy values of JavaScript among those above
Falsy(v) ==
    \/ v = JsNull
    \/ v = JsUndefined
    \/ (IsNum(v) /\ ValueOf(v) = 0)
    \/ (IsStr(v) /\ ValueOf(v) = "")

\* v || null
OrNull(v) == IF Falsy(v) THEN JsNull ELSE v

(***************************************************************************)
(* JavaScript string primitives                                            *)
(***************************************************************************)
Max(a, b) == IF a >= b THEN a ELSE b
Min(a, b) == IF a <= b THEN a ELSE b

CharAt(s, i) == SubSeq(s, i, i)

UpperChars == {"A","B","C","D","E","F","G","H","I","J","K","L","M",
               "N","O","P","Q","R","S","T","U","V","W","X","Y","Z"}
LowerChars == {"a","b","c","d","e","f","g","h","i","j","k","l","m",
               "n","o","p","q","r","s","t","u","v","w","x","y","z"}
DigitChars == {"0","1","2","3","4","5","6","7","8","9"}
\* \s of a JavaScript regular expression, over the characters used here
SpaceChars == {" ", "\n", "\t"}
\* \w of a JavaScript regular expression
WordChars == UpperChars \cup LowerChars \cup DigitChars \cup {"_"}
\* [!?] and [.!?]
BangChars == {"!", "?"}
StopChars == {".", "!", "?"}

LowerOf ==
    [c \in UpperChars |->
        CASE c = "A" -> "a" [] c = "B" -> "b" [] c = "C" -> "c" [] c = "D" -> "d"
          [] c = "E" -> "e" [] c = "F" -> "f" [] c = "G" -> "g" [] c = "H" -> "h"
          [] c = "I" -> "i" [] c = "J" -> "j" [] c = "K" -> "k" [] c = "L" -> "l"
          [] c = "M" -> "m" [] c = "N" -> "n" [] c = "O" -> "o" [] c = "P" -> "p"
          [] c = "Q" -> "q" [] c = "R" -> "r" [] c = "S" -> "s" [] c = "T" -> "t"
          [] c = "U" -> "u" [] c = "V" -> "v" [] c = "W" -> "w" [] c = "X" -> "x"
          [] c = "Y" -> "y" [] c = "Z" -> "z"]

ToLowerChar(c) == IF c \in LowerChars THEN c
                  ELSE IF c \in UpperChars THEN LowerOf[c] ELSE c

\* String.prototype.toLowerCase (halving keeps the recursion shallow)
RECURSIVE toLowerCase(_)
toLowerCase(s) ==
    IF Len(s) = 0 THEN ""
    ELSE IF Len(s) = 1 THEN ToLowerChar(s)
    ELSE LET h == Len(s) \div 2
         IN  toLowerCase(SubSeq(s, 1, h)) \o toLowerCase(SubSeq(s, h + 1, Len(s)))

\* String.prototype.includes
includes(s, t) ==
    \E i \in 1..(Len(s) - Len(t) + 1) : SubSeq(s, i, i + Len(t) - 1) = t

\* indicators.some(indicator => lowerPrompt.includes(indicator))
someIncluded(s, indicators) ==
    LET lower == toLowerCase(s)
    IN  \E t \in indicators : includes(lower, t)

\* String.prototype.split on the regular expression [chars]+ : pieces and
\* maximal runs of separator characters alternate, piece k ending before
\* the k-th run and piece k+1 starting after it, so that a leading or
\* trailing run gives an empty first or last piece and "" gives <<"">>.
split(s, chars) ==
    LET n == Len(s)
        isSep(i) == CharAt(s, i) \in chars
        idx == [i \in 1..n |-> i]
        runStart(i) == isSep(i) /\ (i = 1 \/ ~isSep(i - 1))
        runEnd(i) == isSep(i) /\ (i = n \/ ~isSep(i + 1))
        runStarts == SelectSeq(idx, runStart)
        runEnds == SelectSeq(idx, runEnd)
    IN  [k \in 1..(Len(runStarts) + 1) |->
            SubSeq(s, IF k = 1 THEN 1 ELSE runEnds[k - 1] + 1,
                      IF k <= Len(runStarts) THEN runStarts[k] - 1 ELSE n)]

\* String.prototype.trim().length > 0
trimNonEmpty(s) == \E i \in 1..Len(s) : CharAt(s, i) \notin SpaceChars

\* (s.match(/[chars]{k,}/g) || []).length : the maximal runs of at least k
\* characters of the class
countRuns(s, chars, k) ==
    LET n == Len(s)
        in(i) == i >= 1 /\ i <= n /\ CharAt(s, i) \in chars
    IN  Cardinality({i \in 1..n :
            /\ in(i) /\ ~in(i - 1)
            /\ \A j \in i..(i + k - 1) : in(j)})

(***************************************************************************)
(* AnalysisEngine (src/src/analysis/engine.ts)                             *)
(***************************************************************************)
techniques(complexity) ==
    CASE complexity = "simple" -> {"Zero-Shot", "Direct Question"}
      [] complexity = "moderate" -> {"Few-Shot", "Chain of Thought", "Role-Based"}
      [] complexity = "complex" -> {"Tree of Thoughts", "ReAct", "Multi-Step Reasoning"}

detectContext(p) ==
    someIncluded(p, {"context", "background", "situation", "scenario",
        "given that", "assuming", "consider", "in the context of",
        "for this project", "working on", "building", "creating"})

detectExamples(p) ==
    someIncluded(p, {"example", "for instance", "such as", "like this",
        "here's an example", "e.g.", "for example", "including", "sample",
        "demo"})

detectConstraints(p) ==
    someIncluded(p, {"must", "should", "cannot", "don't", "avoid", "only",
        "exactly", "within", "limit", "constraint", "requirement", "ensure",
        "make sure"})

detectExpectedOutput(p) ==
    someIncluded(p, {"output", "result", "response", "format", "structure",
        "return", "provide", "give me", "i want", "i need", "show me", "list",
        "explain", "describe", "write", "create", "generate"})

detectAmbiguity(p) ==
    someIncluded(p, {"something", "anything", "stuff", "things", "some",
        "any", "maybe", "perhaps", "might", "could be", "sort of", "kind of"})

detectPotentialBias(p) ==
    someIncluded(p, {"obviously", "clearly", "everyone knows",
        "it's common sense", "normal people", "typical", "standard"})

detectTechnicalContent(p) ==
    someIncluded(p, {"code", "function", "algorithm", "api", "database",
        "sql", "programming", "development", "technical", "implementation",
        "architecture", "design pattern", "framework", "library"})

\* words.length / sentences.length > 30 in IEEE arithmetic: a division by
\* zero gives Infinity (words.length is never 0, so never NaN)
avgWordsPerSentenceOver30(nWords, nSentences) ==
    IF nSentences = 0 THEN nWords > 0 ELSE nWords > 30 * nSentences

\* In hundredths: 10 is 1000, 0.5 is 50.
calculateClarityScore(p, words, sentences) ==
    LET s0 == 1000
        s1 == IF Len(words) < 10 THEN s0 - 200 ELSE s0
        s2 == IF Len(words) > 500 THEN s1 - 100 ELSE s1
        s3 == IF avgWordsPerSentenceOver30(Len(words), Len(sentences))
              THEN s2 - 100 ELSE s2
        s4 == IF includes(p, "\n") \/ includes(p, "1.") \/ includes(p, "-")
              THEN s3 + 100 ELSE s3
        excessivePunctuation == countRuns(p, BangChars, 2)
        excessiveCaps == countRuns(p, UpperChars, 5)
        s5 == s4 - (excessivePunctuation + excessiveCaps) * 50
    IN  Max(0, Min(1000, s5))

analyzeStructure(p) ==
    LET words == split(p, SpaceChars)
        sentences == SelectSeq(split(p, StopChars), trimNonEmpty)
    IN  [hasContext |-> detectContext(p),
         hasExamples |-> detectExamples(p),
         hasConstraints |-> detectConstraints(p),
         hasExpectedOutput |-> detectExpectedOutput(p),
         clarityScore |-> calculateClarityScore(p, words, sentences)]

\* Mutant: the bias test runs before the ambiguity test
detectIssues_biasFirst(p, structure) ==
    (IF ~structure.hasContext /\ Len(p) > 100
     THEN <<[type |-> "missing_context", severity |-> "medium"]>> ELSE <<>>)
    \o (IF Len(p) < 20
        THEN <<[type |-> "too_broad", severity |-> "high"]>> ELSE <<>>)
    \o (IF detectPotentialBias(p)
        THEN <<[type |-> "bias", severity |-> "low"]>> ELSE <<>>)
    \o (IF detectAmbiguity(p)
        THEN <<[type |-> "ambiguity", severity |-> "medium"]>> ELSE <<>>)

detectIssues(p, structure) ==
    (IF ~structure.hasContext /\ Len(p) > 100
     THEN <<[type |-> "missing_context", severity |-> "medium"]>> ELSE <<>>)
    \o (IF Len(p) < 20
        THEN <<[type |-> "too_broad", severity |-> "high"]>> ELSE <<>>)
    \o (IF detectAmbiguity(p)
        THEN <<[type |-> "ambiguity", severity |-> "medium"]>> ELSE <<>>)
    \o (IF detectPotentialBias(p)
        THEN <<[type |-> "bias", severity |-> "low"]>> ELSE <<>>)

\* prompt.includes(' and ') || prompt.includes(', ') || prompt.includes('\n')
multipleRequests(p) ==
    includes(p, " and ") \/ includes(p, ", ") \/ includes(p, "\n")

\* Mutant: the second length test takes its point back
complexityScore_lengthPenalty(p, structure) ==
    LET words == Len(split(p, SpaceChars))
    IN  (IF words > 100 THEN 1 ELSE 0)
        - (IF words > 200 THEN 1 ELSE 0)
        + (IF structure.hasContext THEN 1 ELSE 0)
        + (IF structure.hasExamples THEN 1 ELSE 0)
        + (IF structure.hasConstraints THEN 1 ELSE 0)
        + (IF multipleRequests(p) THEN 1 ELSE 0)
        + (IF detectTechnicalContent(p) THEN 1 ELSE 0)

complexityScore(p, structure) ==
    LET words == Len(split(p, SpaceChars))
    IN  (IF words > 100 THEN 1 ELSE 0)
        + (IF words > 200 THEN 1 ELSE 0)
        + (IF structure.hasContext THEN 1 ELSE 0)
        + (IF structure.hasExamples THEN 1 ELSE 0)
        + (IF structure.hasConstraints THEN 1 ELSE 0)
        + (IF multipleRequests(p) THEN 1 ELSE 0)
        + (IF detectTechnicalContent(p) THEN 1 ELSE 0)

\* Mutant: the boundary scores 2 and 4 go to the higher tier
determineComplexity_strict(p, structure) ==
    LET score == complexityScore(p, structure)
    IN  IF score < 2 THEN "simple"
        ELSE IF score < 4 THEN "moderate"
        ELSE "complex"

determineComplexity(p, structure) ==
    LET score == complexityScore(p, structure)
    IN  IF score <= 2 THEN "simple"
        ELSE IF score <= 4 THEN "moderate"
        ELSE "complex"

detectMultiStep(structure) ==
    structure.hasConstraints /\ structure.hasExpectedOutput

\* Mutant: the moderate branch asks for context before examples
selectTechnique_contextFirst(complexity, structure) ==
    IF complexity = "simple"
    THEN (IF structure.hasExpectedOutput THEN "Direct Question" ELSE "Zero-Shot")
    ELSE IF complexity = "moderate"
    THEN (IF structure.hasContext THEN "Role-Based"
          ELSE IF structure.hasExamples THEN "Few-Shot"
          ELSE "Chain of Thought")
    ELSE IF structure.hasConstraints /\ structure.hasContext THEN "ReAct"
    ELSE IF detectMultiStep(structure) THEN "Multi-Step Reasoning"
    ELSE "Tree of Thoughts"

selectTechnique(complexity, structure) ==
    IF complexity = "simple"
    THEN (IF structure.hasExpectedOutput THEN "Direct Question" ELSE "Zero-Shot")
    ELSE IF complexity = "moderate"
    THEN (IF structure.hasExamples THEN "Few-Shot"
          ELSE IF structure.hasContext THEN "Role-Based"
          ELSE "Chain of Thought")
    ELSE IF structure.hasConstraints /\ structure.hasContext THEN "ReAct"
    ELSE IF detectMultiStep(structure) THEN "Multi-Step Reasoning"
    ELSE "Tree of Thoughts"

getTechniqueRationale(technique, complexity) ==
    CASE technique = "Zero-Shot" ->
            "Simple, direct prompt suitable for straightforward requests"
      [] technique = "Direct Question" ->
            "Clear question format with expected output specified"
      [] technique = "Few-Shot" ->
            "Examples provided to guide the model's response format"
      [] technique = "Chain of Thought" ->
            "Moderate complexity requiring step-by-step reasoning"
      [] technique = "Role-Based" ->
            "Context suggests specific expertise or perspective needed"
      [] technique = "Tree of Thoughts" ->
            "Complex problem requiring exploration of multiple approaches"
      [] technique = "ReAct" ->
            "Complex task with constraints requiring reasoning and action"
      [] technique = "Multi-Step Reasoning" ->
            "Complex multi-part problem requiring structured approach"
      [] OTHER -> "Selected based on prompt complexity and structure"

\* Mutant: a high issue costs what a medium one costs
severityDeduction_flat(severity) ==
    CASE severity = "high" -> 100
      [] severity = "medium" -> 100
      [] severity = "low" -> 50
      [] OTHER -> 0

severityDeduction(severity) ==
    CASE severity = "high" -> 200
      [] severity = "medium" -> 100
      [] severity = "low" -> 50
      [] OTHER -> 0

RECURSIVE issueDeductions(_)
issueDeductions(issues) ==
    IF issues = <<>> THEN 0
    ELSE severityDeduction(Head(issues).severity) + issueDeductions(Tail(issues))

\* Math.round(score * 10) / 10 of a score in hundredths, in tenths
\* (Math.round rounds a half up)
roundToTenth(score) == (score + 5) \div 10

\* Mutant: the score is returned without the clamp
clampScore_unclamped(x) == x

\* Math.max(0, Math.min(10, x)) of a score in tenths
clampScore(x) == Max(0, Min(100, x))

\* Mutant: the clarity term counts the distance from full clarity against
\* the score
clarityBonus_shortfall(clarityScore) == ((clarityScore - 1000) * 2) \div 10

\* (structure.clarityScore / 10) * 2, in hundredths
clarityBonus(clarityScore) == (clarityScore * 2) \div 10

\* The result is in tenths (7.5 is 75); the sum before rounding in hundredths.
calculateQualityScore(structure, issues) ==
    LET s0 == 1000
        s1 == IF ~structure.hasContext THEN s0 - 150 ELSE s0
        s2 == IF ~structure.hasExamples THEN s1 - 50 ELSE s1
        s3 == IF ~structure.hasConstraints THEN s2 - 50 ELSE s2
        s4 == IF ~structure.hasExpectedOutput THEN s3 - 100 ELSE s3
        s5 == s4 - issueDeductions(issues)
        s6 == s5 + clarityBonus(structure.clarityScore)
    IN  clampScore(roundToTenth(s6))

analyzePrompt(p) ==
    LET structure == analyzeStructure(p)
        issues == detectIssues(p, structure)
        complexity == determineComplexity(p, structure)
        suggestedTechnique == selectTechnique(complexity, structure)
        qualityScore == calculateQualityScore(structure, issues)
    IN  [qualityScore |-> qualityScore,
         complexity |-> complexity,
         structure |-> structure,
         issues |-> issues,
         suggestedTechnique |-> suggestedTechnique,
         techniqueRationale |->
             getTechniqueRationale(suggestedTechnique, complexity)]

(***************************************************************************)
(* StorageManager (src/src/analysis/insights.ts, from line 258)            *)
(*                                                                         *)
(* better-sqlite3 runs every statement synchronously, so each method is    *)
(* one atomic step.  A table is the sequence of its rows in rowid order.   *)
(* uuidv4() is taken to return a value never returned before: nextId.      *)
(***************************************************************************)

\* JSON.stringify of a metadata object { tags: [...] } (tags free of quotes
\* and commas)
RECURSIVE joinQuoted(_)
joinQuoted(tags) ==
    IF tags = <<>> THEN ""
    ELSE "\"" \o Head(tags) \o "\""
         \o (IF Len(tags) > 1 THEN "," ELSE "") \o joinQuoted(Tail(tags))

JSONstringify(obj) == "{\"tags\":[" \o joinQuoted(obj.tags) \o "]}"

\* JSON.parse of such a text
JSONparse(text) ==
    LET inner == SubSeq(text, 10, Len(text) - 2)
        items == IF inner = "" THEN <<>> ELSE split(inner, {","})
    IN  [tags |-> [i \in 1..Len(items) |->
                      SubSeq(items[i], 2, Len(items[i]) - 1)]]

\* CHECK(complexity IN ('simple', 'moderate', 'complex')); a CHECK passes on
\* NULL
complexityCheck(v) ==
    v = JsNull \/ (IsStr(v) /\ ValueOf(v) \in {"simple", "moderate", "complex"})

\* CHECK(user_rating BETWEEN 1 AND 5)
userRatingCheck(v) ==
    v = JsNull \/ (IsNum(v) /\ ValueOf(v) >= 1 /\ ValueOf(v) <= 5)

\* A column declared NOT NULL; undefined is bound like null, so the INSERT
\* fails for both
notNull(v) == v # JsNull /\ v # JsUndefined

\* A column declared TEXT: a number is bound as a double and converted to
\* its text (123 becomes '123.0'); text and NULL are kept
textAffinity(v) == IF IsNum(v) THEN Str(ToString(ValueOf(v)) \o ".0") ELSE v

\* The row INSERT INTO prompts writes (lines 357-371)
promptRowOf(id, p, ts) ==
    [id |-> id,
     content |-> textAffinity(p.content),
     timestamp |-> ts,
     context |-> OrNull(p.context),
     conversation_id |-> OrNull(p.conversationId),
     quality_score |-> OrNull(p.qualityScore),
     complexity |-> OrNull(p.complexity),
     technique_used |-> OrNull(p.techniqueUsed),
     metadata |-> IF p.metadata # JsUndefined
                  THEN Str(JSONstringify(p.metadata[2])) ELSE JsNull]

\* Whether that INSERT is accepted by the schema of prompts (lines 289-299)
promptRowAccepted(row) ==
    notNull(row.content) /\ complexityCheck(row.complexity)

PromptIds == {prompts[i].id : i \in 1..Len(prompts)}

\* The row INSERT INTO responses writes (lines 378-389)
responseRowOf(id, r, ts) ==
    [id |-> id,
     prompt_id |-> r.promptId,
     content |-> r.content,
     timestamp |-> ts,
     tokens_used |-> OrNull(r.tokensUsed),
     user_rating |-> OrNull(r.userRating)]

\* Mutant: the foreign key of responses is not enforced
responseRowAccepted_noForeignKey(row) ==
    /\ notNull(row.prompt_id)
    /\ notNull(row.content)
    /\ userRatingCheck(row.user_rating)

\* Whether that INSERT is accepted by the schema of responses (lines
\* 301-309); the driver enforces foreign keys
responseRowAccepted(row) ==
    /\ notNull(row.prompt_id)
    /\ notNull(row.content)
    /\ userRatingCheck(row.user_rating)
    /\ ValueOf(row.prompt_id) \in PromptIds

\* Mutant: the three fields are written by separate statements, and only
\* the first has run
updatedRow_torn(row, promptId, qualityScore, complexity, techniqueUsed) ==
    IF row.id = promptId
    THEN [row EXCEPT !.quality_score = qualityScore]
    ELSE row

\* Mutant: the UPDATE also resets the context
updatedRow_context(row, promptId, qualityScore, complexity, techniqueUsed) ==
    IF row.id = promptId
    THEN [row EXCEPT !.quality_score = qualityScore,
                     !.complexity = complexity,
                     !.technique_used = techniqueUsed,
                     !.context = JsNull]
    ELSE row

\* Mutant: the UPDATE has lost its WHERE clause
updatedRow_noWhere(row, promptId, qualityScore, complexity, techniqueUsed) ==
    [row EXCEPT !.quality_score = qualityScore,
                !.complexity = complexity,
                !.technique_used = techniqueUsed]

\* UPDATE prompts SET ... WHERE id = ? applied to one row
updatedRow(row, promptId, qualityScore, complexity, techniqueUsed) ==
    IF row.id = promptId
    THEN [row EXCEPT !.quality_score = qualityScore,
                     !.complexity = complexity,
                     !.technique_used = techniqueUsed]
    ELSE row

mapPromptRow(row) ==
    [id |-> row.id,
     content |-> row.content,
     timestamp |-> row.timestamp,
     context |-> row.context,
     conversationId |-> row.conversation_id,
     qualityScore |-> row.quality_score,
     complexity |-> row.complexity,
     techniqueUsed |-> row.technique_used,
     metadata |-> IF ~Falsy(row.metadata)
                  THEN <<"object", JSONparse(ValueOf(row.metadata))>>
                  ELSE JsUndefined]

mapResponseRow(row) ==
    [id |-> row.id,
     promptId |-> row.prompt_id,
     content |-> row.content,
     timestamp |-> row.timestamp,
     tokensUsed |-> row.tokens_used,
     userRating |-> row.user_rating]

\* ORDER BY timestamp [DESC]: rows with equal timestamps come in an order
\* SQL leaves open; SQLite gives them in rowid order when it sorts and in
\* reverse rowid order when it walks an index backwards.  ties is "rowid" or
\* "reverse".
orderByTimestamp(rows, descending, ties) ==
    LET before(i, j) ==
            IF rows[i].timestamp # rows[j].timestamp
            THEN (IF descending THEN rows[i].timestamp > rows[j].timestamp
                  ELSE rows[i].timestamp < rows[j].timestamp)
            ELSE (IF ties = "rowid" THEN i < j ELSE i > j)
        order == SortSeq([i \in 1..Len(rows) |-> i], before)
    IN  [k \in 1..Len(rows) |-> rows[order[k]]]

\* LIMIT ? OFFSET ?
limitOffset(rows, limit, offset) ==
    SubSeq(rows, offset + 1, Min(Len(rows), offset + limit))

getPrompts(limit, offset, ties) ==
    LET rows == limitOffset(orderByTimestamp(prompts, TRUE, ties), limit, offset)
    IN  [k \in 1..Len(rows) |-> mapPromptRow(rows[k])]

getResponsesByPromptId(promptId, ties) ==
    LET matches(row) == ValueOf(row.prompt_id) = promptId
        rows == orderByTimestamp(SelectSeq(responses, matches), FALSE, ties)
    IN  [k \in 1..Len(rows) |-> mapResponseRow(rows[k])]

(***************************************************************************)
(* Bounds of the model and the calls it makes on the store                 *)
(***************************************************************************)
MaxPrompts == 2
MaxResponses == 1
MaxClock == 1

TieOrders == {"rowid", "reverse"}

\* An identifier as the text the store keeps
Id(n) == <<"string", n>>

BarePrompt ==
    [content |-> Str("fix this"), context |-> JsUndefined,
     conversationId |-> JsUndefined, qualityScore |-> JsUndefined,
     complexity |-> JsUndefined, techniqueUsed |-> JsUndefined,
     metadata |-> JsUndefined]

\* The records savePrompt is called with: as handleLogPrompt and the
\* test-prompt route build them (no analysis fields), with empty or missing
\* content, and as the type Omit<PromptData, 'id' | 'timestamp'> also allows
\* (analysis fields given)
PromptInputs ==
    { BarePrompt,
      [BarePrompt EXCEPT !.content = Str("")],
      [BarePrompt EXCEPT !.content = JsUndefined],
      [BarePrompt EXCEPT !.context = Str("debugging"),
                         !.metadata = <<"object", [tags |-> <<"coding">>]>>],
      [BarePrompt EXCEPT !.qualityScore = Num(75),
                         !.complexity = Str("simple"),
                         !.techniqueUsed = Str("Zero-Shot")] }

\* Whether a record given to savePrompt carries an analysis field
carriesAnalysis(p) ==
    \/ p.qualityScore # JsUndefined
    \/ p.complexity # JsUndefined
    \/ p.techniqueUsed # JsUndefined

AnalysisInputs ==
    { <<Num(61), Str("simple"), Str("Zero-Shot")>>,
      <<Num(50), Str("hard"), Str("Zero-Shot")>> }

ResponseInputs(ids) ==
    { [promptId |-> Id(i), content |-> cr[1], tokensUsed |-> JsUndefined,
       userRating |-> cr[2]] :
        i \in ids, cr \in { <<Str("ok"), Num(5)>>, <<Str("ok"), Num(6)>>,
                            <<JsUndefined, JsUndefined>> } }

NoResult == [op |-> "none"]

(***************************************************************************)
(* The store's methods as steps                                            *)
(***************************************************************************)
\* savePrompt (lines 355-374)
SavePrompt(p) ==
    /\ Len(prompts) < MaxPrompts
    /\ LET id == nextId
           row == promptRowOf(id, p, now)
       IN  IF promptRowAccepted(row)
           THEN /\ prompts' = Append(prompts, row)
                /\ nextId' = nextId + 1
                /\ savedInput' = savedInput \cup {<<id, p>>}
                /\ result' = [op |-> "savePrompt", ok |-> TRUE, id |-> id,
                              arg |-> p]
           ELSE /\ UNCHANGED <<prompts, nextId, savedInput>>
                /\ result' = [op |-> "savePrompt", ok |-> FALSE, id |-> id,
                              arg |-> p]
    /\ UNCHANGED <<responses, insights, now, analysed>>
    /\ UNCHANGED <<engineVars, miner, calls, server>>

\* saveResponse (lines 376-392)
SaveResponse(r) ==
    /\ \/ Len(responses) < MaxResponses
       \/ ~responseRowAccepted(responseRowOf(nextId, r, now))
    /\ LET id == nextId
           row == responseRowOf(id, r, now)
       IN  IF responseRowAccepted(row)
           THEN /\ responses' = Append(responses, row)
                /\ nextId' = nextId + 1
                /\ result' = [op |-> "saveResponse", ok |-> TRUE, id |-> id,
                              arg |-> r]
           ELSE /\ UNCHANGED <<responses, nextId>>
                /\ result' = [op |-> "saveResponse", ok |-> FALSE,
                              id |-> id, arg |-> r]
    /\ UNCHANGED <<prompts, insights, now>>
    /\ UNCHANGED historyVars
    /\ UNCHANGED <<engineVars, miner, calls, server>>

\* updatePromptAnalysis (lines 394-402): the UPDATE changes the rows it
\* matches, fails on a CHECK only for a row it changes, and matching no row
\* is not an error
UpdatePromptAnalysis(promptId, qualityScore, complexity, techniqueUsed) ==
    LET matched == promptId \in PromptIds
        refused == matched /\ ~complexityCheck(complexity)
    IN  /\ IF refused
           THEN UNCHANGED <<prompts, analysed>>
           ELSE /\ prompts' = [i \in 1..Len(prompts) |->
                        updatedRow(prompts[i], promptId, qualityScore,
                                   complexity, techniqueUsed)]
                /\ analysed' = IF matched THEN analysed \cup {promptId}
                               ELSE analysed
        /\ result' = [op |-> "updatePromptAnalysis", ok |-> ~refused,
                      id |-> promptId]
        /\ UNCHANGED <<responses, insights, nextId, now, savedInput>>
        /\ UNCHANGED <<engineVars, miner, calls, server>>

\* getPromptById (lines 415-419)
GetPromptById(id) ==
    /\ result' =
           IF id \in PromptIds
           THEN [op |-> "getPromptById", ok |-> TRUE, id |-> id,
                 found |-> TRUE,
                 value |-> mapPromptRow(
                     CHOOSE row \in {prompts[i] : i \in 1..Len(prompts)} :
                         row.id = id)]
           ELSE [op |-> "getPromptById", ok |-> TRUE, id |-> id,
                 found |-> FALSE]
    /\ UNCHANGED storeVars
    /\ UNCHANGED historyVars
    /\ UNCHANGED <<engineVars, miner, calls, server>>

\* getPrompts (lines 404-413)
GetPrompts(limit, offset, ties) ==
    /\ result' = [op |-> "getPrompts", ok |-> TRUE,
                  rows |-> getPrompts(limit, offset, ties)]
    /\ UNCHANGED storeVars
    /\ UNCHANGED historyVars
    /\ UNCHANGED <<engineVars, miner, calls, server>>

\* getResponsesByPromptId (lines 421-425)
GetResponsesByPromptId(promptId, ties) ==
    /\ result' = [op |-> "getResponsesByPromptId", ok |-> TRUE,
                  id |-> promptId,
                  rows |-> getResponsesByPromptId(promptId, ties)]
    /\ UNCHANGED storeVars
    /\ UNCHANGED historyVars
    /\ UNCHANGED <<engineVars, miner, calls, server>>

\* A second passes
Tick ==
    /\ now < MaxClock
    /\ now' = now + 1
    /\ UNCHANGED <<prompts, responses, insights, nextId, result>>
    /\ UNCHANGED historyVars
    /\ UNCHANGED <<engineVars, miner, calls, server>>

\* The state after the constructor and initialize() on a new data directory
\* (lines 268-285): the four tables exist and are empty
(***************************************************************************)
(* InsightsGenerator: the five detectors.  Each takes the window that      *)
(* getPrompts(500, 0) returned, most recent first, and gives the insights  *)
(* it pushes, in order.                                                    *)
(***************************************************************************)
RECURSIVE GCD(_, _)
GCD(a, b) == IF b = 0 THEN a ELSE GCD(b, a % b)

\* A JavaScript number that is a quotient of integers, in lowest terms
Frac(n, d) ==
    LET g == GCD(IF n < 0 THEN -n ELSE n, d)
    IN  [num |-> n \div g, den |-> d \div g]

fracLess(a, b) == a.num * b.den < b.num * a.den
fracEq(a, b) == a.num * b.den = b.num * a.den
fracPlus(a, k) == Frac(a.num + k * a.den, a.den)

\* Array.prototype.slice(start, end)
slice(seq, start, end) == SubSeq(seq, start + 1, Min(Len(seq), end))

\* sum + score of the reduce in calculateAverageQuality, in tenths: null
\* converts to 0
RECURSIVE sumScores(_)
sumScores(scores) ==
    IF Len(scores) = 0 THEN 0
    ELSE IF Len(scores) = 1
    THEN (IF IsNum(scores[1]) THEN ValueOf(scores[1]) ELSE 0)
    ELSE LET h == Len(scores) \div 2
         IN  sumScores(SubSeq(scores, 1, h))
                + sumScores(SubSeq(scores, h + 1, Len(scores)))

\* p.qualityScore !== undefined : true of null
qualityScoreDefined(p) == p.qualityScore # JsUndefined

\* Mutant: the sum is returned, not divided by the number of scores
calculateAverageQuality_undivided(ps) ==
    LET qualityScores == SelectSeq(ps, qualityScoreDefined)
    IN  IF Len(qualityScores) = 0 THEN Frac(0, 1)
        ELSE Frac(sumScores([i \in 1..Len(qualityScores) |->
                                qualityScores[i].qualityScore]), 1)

\* The mean in tenths, as an exact fraction
calculateAverageQuality(ps) ==
    LET qualityScores == SelectSeq(ps, qualityScoreDefined)
    IN  IF Len(qualityScores) = 0 THEN Frac(0, 1)
        ELSE Frac(sumScores([i \in 1..Len(qualityScores) |->
                                qualityScores[i].qualityScore]),
                  Len(qualityScores))

\* Whether the doubles computed for the mean of ps are exact: every score is
\* a multiple of 0.5 (its double and every partial sum are exact) and the
\* mean is a dyadic number (the division is exact).
exactInDoubles(ps) ==
    LET mean == calculateAverageQuality(ps)
    IN  /\ \A i \in 1..Len(ps) :
              IsNum(ps[i].qualityScore) => ValueOf(ps[i].qualityScore) % 5 = 0
        /\ \E k \in 0..10 : (mean.num * (2 ^ k)) % (10 * mean.den) = 0

\* Mutant: the comparison is inclusive
lessThan_orEqual(a, b, exact, rounded) ==
    fracLess(a, b) \/ fracEq(a, b)

\* a < b on doubles computed for the numbers a and b.  When a and b are
\* equal numbers and the doubles went through inexact steps, the comparison
\* goes the way the rounding errors fall: rounded is that outcome.
lessThan(a, b, exact, rounded) ==
    IF fracEq(a, b) /\ ~exact THEN rounded ELSE fracLess(a, b)

analyzeQualityTrends(ps, rounded) ==
    LET qualityPrompts == SelectSeq(ps, qualityScoreDefined)
        recent == slice(qualityPrompts, 0, 50)
        older == slice(qualityPrompts, 50, 100)
        recentScore == calculateAverageQuality(recent)
        olderScore == calculateAverageQuality(older)
        exact == exactInDoubles(recent) /\ exactInDoubles(older)
        first10 == slice(qualityPrompts, 0, 10)
    IN  IF Len(qualityPrompts) < 10 THEN <<>>
        ELSE IF lessThan(recentScore, fracPlus(olderScore, -5), exact, rounded)
        THEN << [type |-> "quality_decline",
                 severity |-> "warning",
                 title |-> "Prompt Quality Declining",
                 evidence |-> [recentScore |-> recentScore,
                               olderScore |-> olderScore,
                               sampleSize |-> Len(qualityPrompts)],
                 promptIds |-> <<"array", [i \in 1..Len(first10) |->
                                              first10[i].id]>>,
                 acknowledged |-> FALSE] >>
        ELSE IF lessThan(fracPlus(olderScore, 5), recentScore, exact, rounded)
        THEN << [type |-> "quality_improvement",
                 severity |-> "info",
                 title |-> "Prompt Quality Improving",
                 evidence |-> [recentScore |-> recentScore,
                               olderScore |-> olderScore,
                               sampleSize |-> Len(qualityPrompts)],
                 promptIds |-> JsUndefined,
                 acknowledged |-> FALSE] >>
        ELSE <<>>

complexityDefined(p) == p.complexity # JsUndefined

\* The keys of complexityDistribution: acc[prompt.complexity] converts the
\* value to a property name, null to "null"
complexityKey(p) == IF IsStr(p.complexity) THEN ValueOf(p.complexity) ELSE "null"

countOf(ps, key) ==
    Cardinality({i \in 1..Len(ps) : complexityKey(ps[i]) = key})

complexityDistribution(ps) ==
    LET keys == {complexityKey(ps[i]) : i \in 1..Len(ps)}
    IN  [key \in keys |-> countOf(ps, key)]

\* x / total * 100 > 80 and > 60 are compared as fractions: 0.8 * 100 and
\* 0.6 * 100 are exactly 80 and 60 in doubles
analyzeComplexityPatterns(ps) ==
    LET complexityPrompts == SelectSeq(ps, complexityDefined)
        total == Len(complexityPrompts)
        distribution == complexityDistribution(complexityPrompts)
        simplePercent == Frac(countOf(complexityPrompts, "simple") * 100, total)
        complexPercent == Frac(countOf(complexityPrompts, "complex") * 100, total)
    IN  IF total < 20 THEN <<>>
        ELSE (IF fracLess(Frac(80, 1), simplePercent)
              THEN << [type |-> "complexity_suggestion",
                       severity |-> "suggestion",
                       title |-> "Consider More Detailed Prompts",
                       evidence |-> [complexityDistribution |-> distribution,
                                     simplePercent |-> simplePercent],
                       promptIds |-> JsUndefined,
                       acknowledged |-> FALSE] >>
              ELSE <<>>)
          \o (IF fracLess(Frac(60, 1), complexPercent)
              THEN << [type |-> "complexity_warning",
                       severity |-> "suggestion",
                       title |-> "Many Complex Prompts Detected",
                       evidence |-> [complexityDistribution |-> distribution,
                                     complexPercent |-> complexPercent],
                       promptIds |-> JsUndefined,
                       acknowledged |-> FALSE] >>
              ELSE <<>>)

hasContextIndicators(content) ==
    someIncluded(content, {"context", "background", "situation", "scenario",
        "given that", "assuming", "consider", "in the context of",
        "for this project", "working on", "building", "creating", "i am",
        "i have", "my project"})

contentOf(p) == ValueOf(p.content)

idsOf(ps) == <<"array", [i \in 1..Len(ps) |-> ps[i].id]>>

\* Mutant: up to ten example records are listed
analyzeContextUsage_tenIds(ps) ==
    LET withContext(p) == hasContextIndicators(contentOf(p))
        lowContext(p) == ~hasContextIndicators(contentOf(p))
                            /\ Len(contentOf(p)) > 50
        promptsWithContext == SelectSeq(ps, withContext)
        contextUsagePercent == Frac(Len(promptsWithContext) * 100, Len(ps))
        lowContextPrompts == slice(SelectSeq(ps, lowContext), 0, 10)
    IN  IF Len(ps) < 20 THEN <<>>
        ELSE IF fracLess(contextUsagePercent, Frac(30, 1))
        THEN << [type |-> "context_suggestion",
                 severity |-> "suggestion",
                 title |-> "Add More Context to Your Prompts",
                 evidence |-> [contextUsagePercent |-> contextUsagePercent,
                               totalPrompts |-> Len(ps)],
                 promptIds |-> idsOf(lowContextPrompts),
                 acknowledged |-> FALSE] >>
        ELSE <<>>

analyzeContextUsage(ps) ==
    LET withContext(p) == hasContextIndicators(contentOf(p))
        lowContext(p) == ~hasContextIndicators(contentOf(p))
                            /\ Len(contentOf(p)) > 50
        promptsWithContext == SelectSeq(ps, withContext)
        contextUsagePercent == Frac(Len(promptsWithContext) * 100, Len(ps))
        lowContextPrompts == slice(SelectSeq(ps, lowContext), 0, 5)
    IN  IF Len(ps) < 20 THEN <<>>
        ELSE IF fracLess(contextUsagePercent, Frac(30, 1))
        THEN << [type |-> "context_suggestion",
                 severity |-> "suggestion",
                 title |-> "Add More Context to Your Prompts",
                 evidence |-> [contextUsagePercent |-> contextUsagePercent,
                               totalPrompts |-> Len(ps)],
                 promptIds |-> idsOf(lowContextPrompts),
                 acknowledged |-> FALSE] >>
        ELSE <<>>

RECURSIVE sumLengths(_)
sumLengths(ps) ==
    IF Len(ps) = 0 THEN 0
    ELSE IF Len(ps) = 1 THEN Len(contentOf(ps[1]))
    ELSE LET h == Len(ps) \div 2
         IN  sumLengths(SubSeq(ps, 1, h)) + sumLengths(SubSeq(ps, h + 1, Len(ps)))

analyzePromptLength(ps) ==
    LET isShort(p) == Len(contentOf(p)) < 20
        isVeryLong(p) == Len(contentOf(p)) > 1000
        avgLength == Frac(sumLengths(ps), Len(ps))
        shortPrompts == SelectSeq(ps, isShort)
        veryLongPrompts == SelectSeq(ps, isVeryLong)
    IN  IF Len(ps) < 20 THEN <<>>
        ELSE (IF fracLess(Frac(3, 10), Frac(Len(shortPrompts), Len(ps)))
              THEN << [type |-> "length_warning",
                       severity |-> "suggestion",
                       title |-> "Many Short Prompts Detected",
                       evidence |-> [shortPromptsCount |-> Len(shortPrompts),
                                     totalPrompts |-> Len(ps),
                                     avgLength |-> avgLength],
                       promptIds |-> idsOf(slice(shortPrompts, 0, 5)),
                       acknowledged |-> FALSE] >>
              ELSE <<>>)
          \o (IF fracLess(Frac(2, 10), Frac(Len(veryLongPrompts), Len(ps)))
              THEN << [type |-> "length_suggestion",
                       severity |-> "info",
                       title |-> "Consider Breaking Down Long Prompts",
                       evidence |-> [longPromptsCount |-> Len(veryLongPrompts),
                                     totalPrompts |-> Len(ps),
                                     avgLength |-> avgLength],
                       promptIds |-> JsUndefined,
                       acknowledged |-> FALSE] >>
              ELSE <<>>)

\* prompt.timestamp.toISOString().split('T')[0] : the UTC day of a timestamp
\* in seconds (the local time zone is taken to be UTC)
dayOf(timestamp) == timestamp \div 86400

groupPromptsByDay(ps) ==
    LET days == {dayOf(ps[i].timestamp) : i \in 1..Len(ps)}
    IN  [day \in days |->
            Cardinality({i \in 1..Len(ps) : dayOf(ps[i].timestamp) = day})]

\* String.prototype.replace(/[^\w\s]/g, ' ')
RECURSIVE replaceNonWord(_)
replaceNonWord(s) ==
    IF Len(s) = 0 THEN ""
    ELSE IF Len(s) = 1
    THEN (IF s \in WordChars \cup SpaceChars THEN s ELSE " ")
    ELSE LET h == Len(s) \div 2
         IN  replaceNonWord(SubSeq(s, 1, h))
                \o replaceNonWord(SubSeq(s, h + 1, Len(s)))

stopWords ==
    {"the", "a", "an", "and", "or", "but", "in", "on", "at", "to", "for",
     "of", "with", "by", "is", "are", "was", "were", "be", "been", "have",
     "has", "had", "do", "does", "did", "will", "would", "could", "should",
     "may", "might", "can", "shall", "must", "i", "you", "he", "she", "it",
     "we", "they", "this", "that", "these", "those"}

wordsOf(content) ==
    LET keep(word) == Len(word) > 3 /\ word \notin stopWords
    IN  SelectSeq(split(replaceNonWord(toLowerCase(content)), SpaceChars), keep)

RECURSIVE allWords(_)
allWords(ps) ==
    IF Len(ps) = 0 THEN <<>>
    ELSE IF Len(ps) = 1 THEN wordsOf(contentOf(ps[1]))
    ELSE LET h == Len(ps) \div 2
         IN  allWords(SubSeq(ps, 1, h)) \o allWords(SubSeq(ps, h + 1, Len(ps)))

\* Object.entries(wordFreq) lists the words in the order of their first
\* occurrence (no word here is a canonical array index, which would come
\* first); sort is stable, so words with equal counts keep that order.
findCommonWords(ps) ==
    LET all == allWords(ps)
        idx == [i \in 1..Len(all) |-> i]
        isFirst(i) == \A j \in 1..(i - 1) : all[j] # all[i]
        firsts == SelectSeq(idx, isFirst)
        count(i) == Cardinality({j \in 1..Len(all) : all[j] = all[i]})
        frequent(i) == count(i) >= 3
        before(i, j) == count(i) > count(j) \/ (count(i) = count(j) /\ i < j)
        order == SortSeq(SelectSeq(firsts, frequent), before)
    IN  [k \in 1..Len(order) |-> all[order[k]]]

analyzeFrequencyPatterns(ps) ==
    LET dailyCount == groupPromptsByDay(ps)
        totalDays == Cardinality(DOMAIN dailyCount)
        avgDailyPrompts == Frac(Len(ps), totalDays)
        commonWords == findCommonWords(ps)
    IN  IF Len(ps) < 50 THEN <<>>
        ELSE (IF fracLess(Frac(50, 1), avgDailyPrompts)
              THEN << [type |-> "usage_pattern",
                       severity |-> "info",
                       title |-> "High Daily Usage Detected",
                       evidence |-> [avgDailyPrompts |-> avgDailyPrompts,
                                     totalDays |-> totalDays],
                       promptIds |-> JsUndefined,
                       acknowledged |-> FALSE] >>
              ELSE <<>>)
          \o (IF Len(commonWords) > 0
              THEN << [type |-> "pattern_detection",
                       severity |-> "info",
                       title |-> "Common Prompt Patterns Found",
                       evidence |-> [commonWords |-> slice(commonWords, 0, 10)],
                       promptIds |-> JsUndefined,
                       acknowledged |-> FALSE] >>
              ELSE <<>>)

\* The k-th detector called by generateInsights
detector(k, ps, rounded) ==
    CASE k = 1 -> analyzeQualityTrends(ps, rounded)
      [] k = 2 -> analyzeComplexityPatterns(ps)
      [] k = 3 -> analyzeContextUsage(ps)
      [] k = 4 -> analyzePromptLength(ps)
      [] k = 5 -> analyzeFrequencyPatterns(ps)

\* The local array insights after the first n detectors have returned
\* (returned[k] is what the k-th returns)
RECURSIVE pushed(_, _)
pushed(n, returned) ==
    IF n = 0 THEN <<>>
    ELSE pushed(n - 1, returned) \o returned[n]

\* The row that saveInsight inserts (description, a display text, is left
\* out; JSON.stringify of evidence and of promptIds is kept as the value).
\* The last parameter bound is the boolean insight.acknowledged: a row is
\* written, with 0 for false, only if the driver binds it; a driver that
\* binds numbers, strings, bigints, buffers and null alone throws there.
\* The steps below take that, like any other failure of the INSERT, as the
\* outcome "saveInsight throws".
insightRowOf(id, insight, ts) ==
    [id |-> id,
     created_at |-> ts,
     type |-> insight.type,
     severity |-> insight.severity,
     title |-> insight.title,
     evidence |-> <<"json", insight.evidence>>,
     prompt_ids |-> IF insight.promptIds # JsUndefined
                    THEN <<"json", insight.promptIds[2]>> ELSE JsNull,
     acknowledged |-> IF insight.acknowledged THEN 1 ELSE 0]

\* Mutant: an insight of a type and with evidence already stored is not
\* stored again
insertInsight_deduplicating(rows, row) ==
    IF \E i \in 1..Len(rows) :
            rows[i].type = row.type /\ rows[i].evidence = row.evidence
    THEN rows
    ELSE Append(rows, row)

\* Mutant: INSERT OR REPLACE INTO a table that is wiped first
insertInsight_replacing(rows, row) == <<row>>

\* INSERT INTO insights (lines 445-459): the table gains the row
insertInsight(rows, row) == Append(rows, row)

\* mapInsightRow (lines 495-507): JSON.parse gives back the value that
\* JSON.stringify was given (evidence holds finite numbers, texts and
\* arrays of texts), Boolean(0) is false
mapInsightRow(row) ==
    [id |-> row.id,
     createdAt |-> row.created_at,
     type |-> row.type,
     severity |-> row.severity,
     title |-> row.title,
     evidence |-> IF ~Falsy(row.evidence) THEN row.evidence[2]
                  ELSE JsUndefined,
     promptIds |-> IF ~Falsy(row.prompt_ids)
                   THEN <<"array", row.prompt_ids[2]>> ELSE JsUndefined,
     acknowledged |-> row.acknowledged # 0]

\* SELECT * FROM insights WHERE acknowledged = FALSE ORDER BY created_at
\* DESC (lines 464-468); ties as in orderByTimestamp
getUnacknowledgedInsights(ties) ==
    LET unacknowledged(row) == row.acknowledged = 0
        rows == SelectSeq(insights, unacknowledged)
        before(i, j) ==
            IF rows[i].created_at # rows[j].created_at
            THEN rows[i].created_at > rows[j].created_at
            ELSE (IF ties = "rowid" THEN i < j ELSE i > j)
        order == SortSeq([i \in 1..Len(rows) |-> i], before)
    IN  [k \in 1..Len(rows) |-> mapInsightRow(rows[order[k]])]

GetUnacknowledgedInsights(ties) ==
    /\ result' = [op |-> "getUnacknowledgedInsights", ok |-> TRUE,
                  rows |-> getUnacknowledgedInsights(ties)]
    /\ UNCHANGED storeVars
    /\ UNCHANGED historyVars
    /\ UNCHANGED <<engineVars, miner, calls, server>>

\* The members of a set of numbers, the greatest first
RECURSIVE descending(_)
descending(S) ==
    IF S = {} THEN <<>>
    ELSE LET top == CHOOSE x \in S : \A y \in S : y <= x
         IN  <<top>> \o descending(S \ {top})

\* timestamp >= datetime('now', '-' || ? || ' days'): both are UTC times to
\* the second
inTrailingWindow(timestamp, days) == timestamp >= now - days * 86400

\* Mutant: the WHERE clause has lost quality_score IS NOT NULL
getQualityMetrics_countAll(days) ==
    LET selected(row) == inTrailingWindow(row.timestamp, days)
        rows == SelectSeq(prompts, selected)
        dates == descending({dayOf(rows[i].timestamp) : i \in 1..Len(rows)})
    IN  [k \in 1..Len(dates) |->
            LET onDate(row) == dayOf(row.timestamp) = dates[k]
                group == SelectSeq(rows, onDate)
            IN  [date |-> dates[k],
                 averageQuality |->
                    Frac(sumScores([i \in 1..Len(group) |->
                                       group[i].quality_score]), Len(group)),
                 count |-> Len(group)]]

\* SELECT DATE(timestamp) as date, AVG(quality_score), COUNT(*) FROM prompts
\* WHERE quality_score IS NOT NULL AND timestamp >= ... GROUP BY
\* DATE(timestamp) ORDER BY date DESC (lines 427-441)
getQualityMetrics(days) ==
    LET selected(row) == /\ row.quality_score # JsNull
                         /\ inTrailingWindow(row.timestamp, days)
        rows == SelectSeq(prompts, selected)
        dates == descending({dayOf(rows[i].timestamp) : i \in 1..Len(rows)})
    IN  [k \in 1..Len(dates) |->
            LET onDate(row) == dayOf(row.timestamp) = dates[k]
                group == SelectSeq(rows, onDate)
            IN  [date |-> dates[k],
                 averageQuality |->
                    Frac(sumScores([i \in 1..Len(group) |->
                                       group[i].quality_score]), Len(group)),
                 count |-> Len(group)]]

GetQualityMetrics(days) ==
    /\ result' = [op |-> "getQualityMetrics", ok |-> TRUE, days |-> days,
                  rows |-> getQualityMetrics(days)]
    /\ UNCHANGED storeVars
    /\ UNCHANGED historyVars
    /\ UNCHANGED <<engineVars, miner, calls, server>>

(***************************************************************************)
(* generateInsights.  A call runs in the steps its awaits cut it into:     *)
(* getPrompts; then the five detectors and the first saveInsight; then,    *)
(* after each await, the push onto savedInsights and the next saveInsight  *)
(* or the return.  The cron job and POST /api/insights/generate can each   *)
(* have a call in progress: miner[p] is call p, numbered in the order in   *)
(* which the calls start.                                                  *)
(***************************************************************************)
MaxPasses == 2
Passes == 1..MaxPasses

\* The values of fault: 0 for none, k in 1..5 for the k-th detector, and
\* this one for saveInsight
saveInsightThrows == 6

IdlePass ==
    [pc |-> "idle", recentPrompts |-> <<>>, insights |-> <<>>,
     savedInsights |-> <<>>, id |-> 0, fault |-> 0]

MinerIdle == miner = [p \in Passes |-> IdlePass]

\* const recentPrompts = await this.storage.getPrompts(500, 0)
GenerateInsights(p, ties) ==
    /\ miner[p].pc = "idle"
    /\ IF p = 1 THEN TRUE ELSE miner[p - 1].pc # "idle"
    /\ miner' = [miner EXCEPT ![p] =
                    [@ EXCEPT !.pc = "detect",
                              !.recentPrompts = getPrompts(500, 0, ties)]]
    /\ result' = NoResult
    /\ UNCHANGED <<storeVars, historyVars, engineVars, calls, server>>

\* The detectors run in order.  fault = k says that the k-th detector
\* throws (0: none does): nothing catches it, so the call rejects with the
\* insights pushed so far still in its local array.  Otherwise the first
\* insight, if any, is handed to saveInsight, which writes the row or, with
\* fault = saveInsightThrows, throws: the call rejects.  rounded is the way
\* a comparison of inexact doubles goes (see lessThan).
Detect(p, fault, rounded) ==
    /\ miner[p].pc = "detect"
    /\ \E returned \in {<<detector(1, miner[p].recentPrompts, rounded),
                           detector(2, miner[p].recentPrompts, FALSE),
                           detector(3, miner[p].recentPrompts, FALSE),
                           detector(4, miner[p].recentPrompts, FALSE),
                           detector(5, miner[p].recentPrompts, FALSE)>>} :
       \E found \in {pushed(5, returned)} :
           IF fault \in 1..5
           THEN /\ miner' = [miner EXCEPT ![p] =
                              [@ EXCEPT !.pc = "rejected",
                                        !.fault = fault,
                                        !.insights = pushed(fault - 1, returned)]]
                /\ UNCHANGED <<insights, nextId>>
           ELSE IF found = <<>>
           THEN /\ miner' = [miner EXCEPT ![p] = [@ EXCEPT !.pc = "resolved"]]
                /\ UNCHANGED <<insights, nextId>>
           ELSE IF fault = saveInsightThrows
           THEN /\ miner' = [miner EXCEPT ![p] =
                              [@ EXCEPT !.pc = "rejected",
                                        !.fault = fault,
                                        !.insights = found]]
                /\ UNCHANGED <<insights, nextId>>
           ELSE /\ miner' = [miner EXCEPT ![p] =
                              [@ EXCEPT !.pc = "saving", !.insights = found,
                                        !.id = nextId]]
                /\ insights' = insertInsight(insights,
                                    insightRowOf(nextId, found[1], now))
                /\ nextId' = nextId + 1
    /\ result' = NoResult
    /\ UNCHANGED <<prompts, responses, now, historyVars, engineVars, calls, server>>

\* After await saveInsight: savedInsights.push({id, createdAt, ...insight}),
\* then the next saveInsight (saves says whether it writes the row or
\* throws), or return savedInsights
Continue(p, saves) ==
    /\ miner[p].pc = "saving"
    /\ LET k == Len(miner[p].savedInsights) + 1
           saved == Append(miner[p].savedInsights,
                           [id |-> miner[p].id, createdAt |-> now,
                            insight |-> miner[p].insights[k]])
       IN  IF k < Len(miner[p].insights) /\ ~saves
           THEN /\ miner' = [miner EXCEPT ![p] =
                              [@ EXCEPT !.pc = "rejected",
                                        !.fault = saveInsightThrows,
                                        !.savedInsights = saved]]
                /\ UNCHANGED <<insights, nextId>>
           ELSE IF k < Len(miner[p].insights)
           THEN /\ miner' = [miner EXCEPT ![p] =
                              [@ EXCEPT !.savedInsights = saved,
                                        !.id = nextId]]
                /\ insights' = insertInsight(insights,
                        insightRowOf(nextId, miner[p].insights[k + 1], now))
                /\ nextId' = nextId + 1
           ELSE /\ miner' = [miner EXCEPT ![p] =
                              [@ EXCEPT !.pc = "resolved",
                                        !.savedInsights = saved]]
                /\ UNCHANGED <<insights, nextId>>
    /\ result' = NoResult
    /\ UNCHANGED <<prompts, responses, now, historyVars, engineVars, calls, server>>

(***************************************************************************)
(* The life cycle of the server: MCPServer.start and shutdown (lines 23-72 *)
(* of src/server/index.ts) and their twins in MCPPromptCollector (lines    *)
(* 145-218 of src/unnamed/part_001), which differ only in that the         *)
(* collector's shutdown ends the process.  Both are async: a call runs to  *)
(* its next await and other callbacks (a second call, a signal) run in     *)
(* between.  server.tasks[t] is call t of start() or shutdown(), numbered  *)
(* in the order in which the calls begin.  The constructor has opened the  *)
(* database (StorageManager, lines 264-272 of insights.ts); initialize()   *)
(* creates the tables, MCPProtocolHandler.start connects a new stdio       *)
(* transport with no guard (part_001 lines 571-580), DashboardServer.start *)
(* and stop guard on the dashboard's own isRunning, which stop resets only *)
(* in the callback of server.close (insights.ts lines 945-989).  A step    *)
(* that can throw takes the input fails.  The catch of start() calls       *)
(* shutdown(): a start that failed goes through the steps of shutdown      *)
(* before it rejects.                                                      *)
(***************************************************************************)
MaxTasks == 3
Tasks == 1..MaxTasks

ServerClasses == {"MCPServer", "MCPPromptCollector"}

IdleTask ==
    [kind |-> "none", pc |-> "idle", failedAt |-> "none", overlapped |-> FALSE,
     did |-> {}]

constructed(class) ==
    [class |-> class, isRunning |-> FALSE, exited |-> FALSE,
     db |-> "open", initialized |-> 0, closes |-> 0,
     handler |-> "idle", connects |-> 0, handlerStops |-> 0,
     dashboard |-> [isRunning |-> FALSE], listens |-> 0, dashboardStops |-> 0,
     listeners |-> 0,
     tasks |-> [t \in Tasks |-> IdleTask]]

ServerIdle == server = constructed("MCPServer")

ServerConstructed == \E class \in ServerClasses : server = constructed(class)

\* a call of start() that has not yet resolved or rejected
startInProgress(s) ==
    \E t \in Tasks : /\ s.tasks[t].kind = "start"
                     /\ s.tasks[t].pc \notin {"resolved", "rejected"}

\* call t may begin: the process lives, t is the next call
mayBegin(t) ==
    /\ ~server.exited
    /\ server.tasks[t].pc = "idle"
    /\ t > 1 => server.tasks[t - 1].pc # "idle"

atStep(t, kind, pc) ==
    /\ ~server.exited
    /\ server.tasks[t].kind = kind
    /\ server.tasks[t].pc = pc

\* the step of start() throws: on to the catch block
thrown(s, t, step) ==
    [s EXCEPT !.tasks[t].pc = "catch", !.tasks[t].failedAt = step]

\* StorageManager.initialize: createTables and createIndexes
initialize(s, t) ==
    [s EXCEPT !.initialized = @ + 1,
              !.tasks[t].pc = "initialized",
              !.tasks[t].did = @ \cup {"storage"}]

\* MCPProtocolHandler.start: connect a new transport, no guard
mcpHandlerStart(s, t) ==
    [s EXCEPT !.handler = "connected",
              !.connects = @ + 1,
              !.tasks[t].pc = "handlerStarted",
              !.tasks[t].did = @ \cup {"mcpHandler"}]

\* DashboardServer.start: returns at once when the dashboard runs
dashboardStart(s, t) ==
    IF s.dashboard.isRunning
    THEN [s EXCEPT !.tasks[t].pc = "dashboardStarted"]
    ELSE [s EXCEPT !.dashboard.isRunning = TRUE,
                   !.listens = @ + 1,
                   !.tasks[t].pc = "dashboardStarted",
                   !.tasks[t].did = @ \cup {"dashboard"}]

\* MCPProtocolHandler.stop: close the server, no guard
mcpHandlerStop(s, t) ==
    [s EXCEPT !.handler = "closed",
              !.handlerStops = @ + 1,
              !.tasks[t].pc = "handlerStopped"]

\* DashboardServer.stop: returns at once when the dashboard does not run,
\* else closes the http server and waits for the callback of close
dashboardStop(s, t) ==
    IF ~s.dashboard.isRunning
    THEN [s EXCEPT !.tasks[t].pc = "dashboardStopped"]
    ELSE [s EXCEPT !.dashboardStops = @ + 1,
                   !.tasks[t].pc = "dashboardStopping"]

\* StorageManager.close
close(s) == [s EXCEPT !.db = "closed", !.closes = @ + 1]

\* how a finished pass through shutdown() ends for its caller
settled(kind) == IF kind = "start" THEN "rejected" ELSE "resolved"

\* start() up to its first await: the guard, then storage.initialize(),
\* which throws on a database that has been closed
ServerStart(t, fails) ==
    /\ mayBegin(t)
    /\ server.db = "closed" => fails
    /\ \E s \in {[server EXCEPT !.tasks[t].kind = "start",
                                !.tasks[t].overlapped = startInProgress(server)]} :
          server' = IF s.isRunning THEN [s EXCEPT !.tasks[t].pc = "resolved"]
                    ELSE IF fails THEN thrown(s, t, "storage")
                    ELSE initialize(s, t)
    /\ result' = NoResult
    /\ UNCHANGED <<storeVars, historyVars, engineVars, miner, calls>>

\* await this.mcpHandler.start()
ServerStartHandler(t, fails) ==
    /\ atStep(t, "start", "initialized")
    /\ server' = IF fails THEN thrown(server, t, "mcpHandler")
                 ELSE mcpHandlerStart(server, t)
    /\ result' = NoResult
    /\ UNCHANGED <<storeVars, historyVars, engineVars, miner, calls>>

\* await this.dashboard.start(): listen throws only when it is called
ServerStartDashboard(t, fails) ==
    /\ atStep(t, "start", "handlerStarted")
    /\ fails => ~server.dashboard.isRunning
    /\ server' = IF fails THEN thrown(server, t, "dashboard")
                 ELSE dashboardStart(server, t)
    /\ result' = NoResult
    /\ UNCHANGED <<storeVars, historyVars, engineVars, miner, calls>>

\* the rest of the try block: isRunning = true, the two signal handlers
ServerStarted(t) ==
    /\ atStep(t, "start", "dashboardStarted")
    /\ server' = [server EXCEPT !.isRunning = TRUE,
                                !.listeners = @ + 1,
                                !.tasks[t].pc = "resolved"]
    /\ result' = NoResult
    /\ UNCHANGED <<storeVars, historyVars, engineVars, miner, calls>>

\* shutdown() up to its first await, called by a signal handler or by the
\* catch block of start(): the guard, then mcpHandler.stop()
Shutdown(t) ==
    /\ \/ mayBegin(t) /\ server.listeners > 0
       \/ atStep(t, "start", "catch")
    /\ \E kind \in {IF server.tasks[t].kind = "start" THEN "start"
                    ELSE "shutdown"} :
       \E s \in {[server EXCEPT !.tasks[t].kind = kind]} :
          server' = IF ~s.isRunning
                    THEN [s EXCEPT !.tasks[t].pc = settled(kind)]
                    ELSE mcpHandlerStop(s, t)
    /\ result' = NoResult
    /\ UNCHANGED <<storeVars, historyVars, engineVars, miner, calls>>

\* await this.dashboard.stop()
ShutdownDashboard(t) ==
    /\ ~server.exited
    /\ server.tasks[t].pc = "handlerStopped"
    /\ server' = dashboardStop(server, t)
    /\ result' = NoResult
    /\ UNCHANGED <<storeVars, historyVars, engineVars, miner, calls>>

\* the callback of server.close: the dashboard no longer runs
DashboardClosed(t) ==
    /\ ~server.exited
    /\ server.tasks[t].pc = "dashboardStopping"
    /\ server' = [server EXCEPT !.dashboard.isRunning = FALSE,
                                !.tasks[t].pc = "dashboardStopped"]
    /\ result' = NoResult
    /\ UNCHANGED <<storeVars, historyVars, engineVars, miner, calls>>

\* the rest of the try block: storage.close(), isRunning = false and, in
\* the collector, process.exit(0)
ShutdownDone(t) ==
    /\ ~server.exited
    /\ server.tasks[t].pc = "dashboardStopped"
    /\ server' = [close(server) EXCEPT
                     !.isRunning = FALSE,
                     !.exited = (server.class = "MCPPromptCollector"),
                     !.tasks[t].pc = settled(server.tasks[t].kind)]
    /\ result' = NoResult
    /\ UNCHANGED <<storeVars, historyVars, engineVars, miner, calls>>

(***************************************************************************)
(* The two callers of savePrompt: handleLogPrompt (the log_prompt tool,    *)
(* src/unnamed/part_001 lines 370-410) and POST /api/test-prompt (lines    *)
(* 616-647 of insights.ts).  Both save the prompt, analyse it and update   *)
(* the saved row, with an await after each of the three, inside one        *)
(* try/catch.  calls[c] is call c, numbered in the order in which the      *)
(* calls start; other calls and requests run between its steps.  A step    *)
(* of a call or of generateInsights answers no direct call: it leaves no   *)
(* result.                                                                 *)
(***************************************************************************)
MaxCalls == 2
Calls == 1..MaxCalls

IdleCall ==
    [pc |-> "idle", kind |-> "none", args |-> <<>>, promptId |-> 0,
     analysis |-> [state |-> "none"]]

CallsIdle == calls = [c \in Calls |-> IdleCall]

RichPrompt ==
    "Given that we are working on a parser. For example take foo. "
        \o "You must avoid recursion. Explain the result."

\* The arguments of a call: a terse and a rich prompt, a prompt that is a
\* number (the tool's input schema is not enforced, and a JSON body may
\* hold any value), and no prompt at all
CallArgs ==
    { [prompt |-> Str("fix this"), context |-> JsUndefined,
       tags |-> JsUndefined, conversationId |-> JsUndefined],
      [prompt |-> Str(RichPrompt), context |-> Str("debugging"),
       tags |-> <<"array", <<"coding">>>>, conversationId |-> Str("c1")],
      [prompt |-> Num(123), context |-> JsUndefined,
       tags |-> JsUndefined, conversationId |-> JsUndefined],
      [prompt |-> JsUndefined, context |-> JsUndefined,
       tags |-> JsUndefined, conversationId |-> JsUndefined] }

\* The calls made: the tool with each of these, the route with the second
CallInputs ==
    {<<"log_prompt", args>> : args \in CallArgs}
        \cup {<<"test-prompt", args>> : args \in {a \in CallArgs :
                                                   a.context # JsUndefined}}

\* The record the caller hands to savePrompt (part_001 lines 375-379,
\* insights.ts lines 621-625)
savedRecord(kind, args) ==
    IF kind = "log_prompt"
    THEN [content |-> args.prompt, context |-> args.context,
          conversationId |-> JsUndefined, qualityScore |-> JsUndefined,
          complexity |-> JsUndefined, techniqueUsed |-> JsUndefined,
          metadata |-> <<"object",
              [tags |-> IF Falsy(args.tags) THEN <<>> ELSE args.tags[2]]>>]
    ELSE [content |-> args.prompt, context |-> args.context,
          conversationId |-> args.conversationId,
          qualityScore |-> JsUndefined, complexity |-> JsUndefined,
          techniqueUsed |-> JsUndefined, metadata |-> JsUndefined]

\* analyzePrompt calls prompt.split first (engine.ts line 28): a TypeError
\* for a prompt that is not a string
analyzePromptThrows(p) == ~IsStr(p)

\* The call arrives: savePrompt.  When the INSERT is refused the catch block
\* answers with the error.
StartCall(c, kind, args) ==
    /\ calls[c].pc = "idle"
    /\ IF c = 1 THEN TRUE ELSE calls[c - 1].pc # "idle"
    /\ LET id == nextId
           record == savedRecord(kind, args)
           row == promptRowOf(id, record, now)
       IN  IF promptRowAccepted(row)
           THEN /\ prompts' = Append(prompts, row)
                /\ nextId' = nextId + 1
                /\ savedInput' = savedInput \cup {<<id, record>>}
                /\ calls' = [calls EXCEPT ![c] =
                       [@ EXCEPT !.pc = "saved", !.kind = kind,
                                 !.args = args, !.promptId = id]]
           ELSE /\ UNCHANGED <<prompts, nextId, savedInput>>
                /\ calls' = [calls EXCEPT ![c] =
                       [@ EXCEPT !.pc = "error", !.kind = kind,
                                 !.args = args]]
    /\ result' = NoResult
    /\ UNCHANGED <<responses, insights, now, analysed>>
    /\ UNCHANGED <<engineVars, miner, server>>

\* After await savePrompt: analyzePrompt(prompt)
AnalyzeCall(c) ==
    /\ calls[c].pc = "saved"
    /\ calls' = [calls EXCEPT ![c] =
           IF analyzePromptThrows(calls[c].args.prompt)
           THEN [@ EXCEPT !.pc = "error"]
           ELSE [@ EXCEPT !.pc = "analysed",
                          !.analysis =
                              analyzePrompt(ValueOf(calls[c].args.prompt))]]
    /\ result' = NoResult
    /\ UNCHANGED <<storeVars, historyVars, engineVars, miner, server>>

\* After await analyzePrompt: updatePromptAnalysis(promptId, qualityScore,
\* complexity, suggestedTechnique).  stored says whether the UPDATE goes
\* through or the driver throws (an I/O failure): then the catch block
\* answers with the error.
UpdateCall(c, stored) ==
    /\ calls[c].pc = "analysed"
    /\ IF stored
       THEN /\ prompts' = [i \in 1..Len(prompts) |->
                   updatedRow(prompts[i], calls[c].promptId,
                              Num(calls[c].analysis.qualityScore),
                              Str(calls[c].analysis.complexity),
                              Str(calls[c].analysis.suggestedTechnique))]
            /\ analysed' = analysed \cup {calls[c].promptId}
            /\ calls' = [calls EXCEPT ![c] = [@ EXCEPT !.pc = "updated"]]
       ELSE /\ UNCHANGED <<prompts, analysed>>
            /\ calls' = [calls EXCEPT ![c] = [@ EXCEPT !.pc = "error"]]
    /\ result' = NoResult
    /\ UNCHANGED <<responses, insights, nextId, now, savedInput>>
    /\ UNCHANGED <<engineVars, miner, server>>

\* After await updatePromptAnalysis: the answer with the analysis and the id
ReturnCall(c) ==
    /\ calls[c].pc = "updated"
    /\ calls' = [calls EXCEPT ![c] = [@ EXCEPT !.pc = "returned"]]
    /\ result' = NoResult
    /\ UNCHANGED <<storeVars, historyVars, engineVars, miner, server>>

\* The weekly cron job (part_001 lines 188-197): it logs two lines and
\* touches nothing
WeeklyCleanup ==
    /\ result' = [op |-> "cleanup", ok |-> TRUE]
    /\ UNCHANGED <<storeVars, historyVars, engineVars, miner, calls, server>>

\* The text w written n times
RECURSIVE Repeat(_, _)
Repeat(w, n) ==
    IF n = 0 THEN ""
    ELSE LET half == Repeat(w, n \div 2)
         IN  IF n % 2 = 0 THEN half \o half ELSE half \o half \o w

StoreInit ==
    /\ prompts = <<>>
    /\ responses = <<>>
    /\ insights = <<>>
    /\ nextId = 1
    /\ now = 0
    /\ result = NoResult
    /\ savedInput = {}
    /\ analysed = {}

EngineIdle ==
    /\ prompt = ""
    /\ analysis = [state |-> "none"]

Init == StoreInit /\ EngineIdle /\ MinerIdle /\ CallsIdle /\ ServerIdle

Next ==
    \/ \E p \in PromptInputs : SavePrompt(p)
    \/ \E r \in ResponseInputs(1..nextId) : SaveResponse(r)
    \/ \E id \in 1..nextId, a \in AnalysisInputs :
            UpdatePromptAnalysis(id, a[1], a[2], a[3])
    \/ \E id \in 1..nextId : GetPromptById(id)
    \/ \E page \in {<<50, 0>>, <<1, 1>>}, ties \in TieOrders :
            GetPrompts(page[1], page[2], ties)
    \/ \E id \in 1..nextId, ties \in TieOrders :
            GetResponsesByPromptId(id, ties)
    \/ Tick

Spec == Init /\ [][Next]_vars

(***************************************************************************)
(* Claims about the store, checked under Spec                              *)
(***************************************************************************)
ResponseIds == {responses[i].id : i \in 1..Len(responses)}

\* C3 (as claimed): updateAnalysis called with an id that is not in the
\* store fails with an error surfaced to the caller.  The code runs an UPDATE
\* that matches no row and returns normally.
C3_UpdateUnknownIdFails ==
    (result.op = "updatePromptAnalysis" /\ result.id \notin PromptIds)
        => ~result.ok

\* C4: saveResponse with a promptId that references no stored prompt fails
\* and inserts no row, and every stored response references a stored prompt.
C4_ResponsesReferencePrompts ==
    /\ \A i \in 1..Len(responses) :
            ValueOf(responses[i].prompt_id) \in PromptIds
    /\ (result.op = "saveResponse"
            /\ ValueOf(result.arg.promptId) \notin PromptIds)
        => (~result.ok /\ result.id \notin ResponseIds)

\* C4 witness: a saveResponse naming an unknown prompt has just failed while
\* the store holds a prompt and a response to it.
C4_Witness ==
    /\ result.op = "saveResponse"
    /\ ValueOf(result.arg.promptId) \notin PromptIds
    /\ notNull(result.arg.content)
    /\ userRatingCheck(OrNull(result.arg.userRating))
    /\ ~result.ok
    /\ Len(prompts) > 0
    /\ Len(responses) > 0

\* C5 (as claimed): savePrompt with missing or empty-string content is
\* rejected and writes nothing.  The code accepts the empty string: the
\* column is only NOT NULL.
C5_BlankContentRejected ==
    (result.op = "savePrompt"
        /\ result.arg.content \in {JsUndefined, JsNull, Str("")})
        => (~result.ok /\ result.id \notin PromptIds)

\* The stored analysis of the prompt with this id, as getPromptById gave it
AnalysisNull(value) ==
    /\ value.qualityScore = JsNull
    /\ value.complexity = JsNull
    /\ value.techniqueUsed = JsNull

SavedIds == {e[1] : e \in savedInput}
InputOf(id) == (CHOOSE e \in savedInput : e[1] = id)[2]

SignalPieces ==
    << {"", "Given that we are working on a parser. "},
       {"", "For example take foo. "},
       {"", "You must avoid recursion. "},
       {"", "Explain the result. "} >>

\* Bodies: empty, the terse request, vague and loaded wording, shouting,
\* and a numbered list
ShortBodies ==
    {"", "fix this", "maybe obviously something", "WHAT!! NOW!!! HELLO!!",
     "1. parse\n2. check - done"}

\* Word counts on both sides of the 100, 200 and 500 word thresholds
FillerWords == {100, 101, 201, 501}

\* Texts without letters, and one with twenty runs of exclamation marks
OddBodies == {"   ", "...", "?!?!", Repeat("!! ", 20), Repeat("A", 5)}

\* Short texts with a multi-part marker, a technical word or a structure
\* indicator, and a text of more than 100 characters with a hedge and a
\* loaded word
TerseBodies ==
    {"fix code, and sql", "fix - it\nnow", "do a and b",
     "maybe obviously " \o Repeat("word ", 20)}

EnginePrompts ==
    { a \o b \o c \o d \o body :
        a \in SignalPieces[1], b \in SignalPieces[2], c \in SignalPieces[3],
        d \in SignalPieces[4], body \in ShortBodies }
    \cup { "x" \o Repeat(" word", n - 1) : n \in FillerWords }
    \cup { "Given that it is code, " \o Repeat("run and ", n) : n \in FillerWords }
    \cup OddBodies
    \cup TerseBodies

EngineInit ==
    /\ prompt \in EnginePrompts
    /\ analysis = [state |-> "none"]
    /\ StoreInit
    /\ MinerIdle
    /\ CallsIdle
    /\ ServerIdle

AnalyzePrompt ==
    /\ analysis.state = "none"
    /\ analysis' = [state |-> "done", value |-> analyzePrompt(prompt)]
    /\ UNCHANGED prompt
    /\ UNCHANGED <<storeVars, result, historyVars, miner, calls, server>>

EngineNext == AnalyzePrompt

SpecEngine == EngineInit /\ [][EngineNext]_vars

\* C1: the quality score of every analysed prompt lies in [0.0, 10.0]
\* (0..100 in tenths).
C1_QualityScoreInRange ==
    analysis.state = "done" =>
        (analysis.value.qualityScore >= 0 /\ analysis.value.qualityScore <= 100)

\* C1 witness: a prompt with all four structural signals, no issue and a
\* positive clarity score, whose sum before the clamp exceeds 10.0, has been
\* analysed and scored 10.0.
C1_Witness ==
    /\ analysis.state = "done"
    /\ analysis.value.structure.hasContext
    /\ analysis.value.structure.hasExamples
    /\ analysis.value.structure.hasConstraints
    /\ analysis.value.structure.hasExpectedOutput
    /\ analysis.value.issues = <<>>
    /\ analysis.value.structure.clarityScore > 0
    /\ analysis.value.qualityScore = 100

\* The words and the sentences of the prompt, as analyzeStructure counts them
WordCount(p) == Len(split(p, SpaceChars))
SentenceCount(p) == Len(SelectSeq(split(p, StopChars), trimNonEmpty))

\* C21: a prompt of fewer than 20 characters and fewer than 10 words, with
\* none of the four structural signals and no hedge or bias word, is
\* reported with exactly one issue, too_broad of severity high, with
\* hasContext false, complexity simple and a quality score of at most 6.5
\* (65 in tenths).
C21_TersePromptTooBroad ==
    (/\ analysis.state = "done"
     /\ Len(prompt) < 20
     /\ WordCount(prompt) < 10
     /\ ~analysis.value.structure.hasContext
     /\ ~analysis.value.structure.hasExamples
     /\ ~analysis.value.structure.hasConstraints
     /\ ~analysis.value.structure.hasExpectedOutput
     /\ ~detectAmbiguity(prompt)
     /\ ~detectPotentialBias(prompt))
        => /\ analysis.value.issues =
                <<[type |-> "too_broad", severity |-> "high"]>>
           /\ analysis.value.complexity = "simple"
           /\ analysis.value.qualityScore <= 65

\* C21 witness: such a prompt with a multi-part marker and a technical
\* word, the most its complexity score can get, has been analysed.
C21_Witness ==
    /\ analysis.state = "done"
    /\ Len(prompt) < 20
    /\ ~analysis.value.structure.hasContext
    /\ ~analysis.value.structure.hasExamples
    /\ ~analysis.value.structure.hasConstraints
    /\ ~analysis.value.structure.hasExpectedOutput
    /\ ~detectAmbiguity(prompt)
    /\ ~detectPotentialBias(prompt)
    /\ multipleRequests(prompt)
    /\ detectTechnicalContent(prompt)
    /\ analysis.value.complexity = "simple"

\* The issue types in the order of the tests, and the severity of each
IssueOrder == <<"missing_context", "too_broad", "ambiguity", "bias">>
IssueSeverity == <<"medium", "high", "medium", "low">>
IssueRank(type) == CHOOSE k \in 1..Len(IssueOrder) : IssueOrder[k] = type

\* C25: in every list of issues each type appears at most once, the issues
\* are in the order missing_context, too_broad, ambiguity, bias, each with
\* its severity (medium, high, medium, low), and missing_context and
\* too_broad are never both in the list.
C25_IssuesOnceInOrder ==
    analysis.state = "done" =>
        \E issues \in {analysis.value.issues} :
            /\ \A i \in 1..Len(issues) :
                /\ \E k \in 1..Len(IssueOrder) : IssueOrder[k] = issues[i].type
                /\ issues[i].severity = IssueSeverity[IssueRank(issues[i].type)]
            /\ \A i, j \in 1..Len(issues) :
                i < j => IssueRank(issues[i].type) < IssueRank(issues[j].type)
            /\ ~(/\ \E i \in 1..Len(issues) : issues[i].type = "missing_context"
                 /\ \E i \in 1..Len(issues) : issues[i].type = "too_broad")

\* C25 witness: a prompt of more than 100 characters without context, with
\* a hedge and a loaded word, has got three issues.
C25_Witness ==
    /\ analysis.state = "done"
    /\ Len(analysis.value.issues) = 3
    /\ analysis.value.issues[1].type = "missing_context"
    /\ analysis.value.issues[2].type = "ambiguity"
    /\ analysis.value.issues[3].type = "bias"

\* The clarity score without the long-sentence penalty, in hundredths
ClarityWithoutLongSentencePenalty(p) ==
    Max(0, Min(1000,
        1000
        - (IF WordCount(p) < 10 THEN 200 ELSE 0)
        - (IF WordCount(p) > 500 THEN 100 ELSE 0)
        + (IF includes(p, "\n") \/ includes(p, "1.") \/ includes(p, "-")
           THEN 100 ELSE 0)
        - (countRuns(p, BangChars, 2) + countRuns(p, UpperChars, 5)) * 50))

\* C26 (as claimed): when the prompt has no sentence and at most 30 words,
\* the clarity score carries no long-sentence penalty.  The code divides by
\* the number of sentences: with none the quotient is Infinity, which is
\* greater than 30.
C26_NoSentenceNoPenalty ==
    (/\ analysis.state = "done"
     /\ SentenceCount(prompt) = 0
     /\ WordCount(prompt) <= 30)
        => analysis.value.structure.clarityScore =
               ClarityWithoutLongSentencePenalty(prompt)

(***************************************************************************)
(* SpecMiner: generateInsights over a store that already holds a history   *)
(* of prompts, saved and analysed earlier.                                 *)
(***************************************************************************)
ShortContent == "fix this"
QuietContent == "I am at it for you and me"
LongContent == "Please rewrite the parser module and explain every change made"
ContextContent == "I am building a parser for this project"
VeryLongContent == Repeat("rewrite ", 126)

\* n consecutive records with this score (in tenths, or null), complexity
\* and content
Seg(n, score, complexity, content) ==
    [n |-> n, score |-> score, complexity |-> complexity, content |-> content]

\* Records that give the other four detectors nothing to report
Scored(n, score) == Seg(n, Num(score), Str("moderate"), QuietContent)
Unscored(n) == Seg(n, JsNull, JsNull, QuietContent)

\* A history lists its segments from the most recent record to the oldest;
\* spacing is the number of seconds between two consecutive saves
Histories ==
    { [segs |-> <<>>, spacing |-> 1],
      [segs |-> <<Scored(9, 60)>>, spacing |-> 1],
      [segs |-> <<Unscored(10)>>, spacing |-> 1],
      [segs |-> <<Unscored(9), Scored(1, 60)>>, spacing |-> 0],
      [segs |-> <<Scored(10, 60)>>, spacing |-> 0],
      [segs |-> <<Scored(50, 50), Scored(10, 60)>>, spacing |-> 86400],
      [segs |-> <<Scored(50, 50), Scored(10, 56)>>, spacing |-> 86400],
      [segs |-> <<Scored(50, 50), Scored(10, 55)>>, spacing |-> 86400],
      [segs |-> <<Scored(50, 51), Scored(10, 56)>>, spacing |-> 86400],
      [segs |-> <<Scored(50, 55), Scored(10, 50)>>, spacing |-> 86400],
      [segs |-> <<Scored(50, 56), Scored(10, 51)>>, spacing |-> 86400],
      [segs |-> <<Scored(50, 60), Scored(10, 50)>>, spacing |-> 86400],
      [segs |-> <<Scored(50, 50), Scored(1, 60)>>, spacing |-> 86400],
      [segs |-> <<Scored(30, 50), Unscored(20), Scored(10, 60)>>,
       spacing |-> 86400],
      [segs |-> <<Scored(50, 50), Scored(50, 60), Scored(10, 30)>>,
       spacing |-> 86400],
      [segs |-> <<Seg(50, Num(50), Str("simple"), ShortContent),
                  Seg(10, Num(60), Str("simple"), ShortContent)>>,
       spacing |-> 1],
      [segs |-> <<Seg(20, Num(80), Str("complex"), LongContent)>>,
       spacing |-> 1],
      [segs |-> <<Seg(25, Num(90), Str("moderate"), ContextContent)>>,
       spacing |-> 1],
      [segs |-> <<Seg(5, Num(70), Str("complex"), VeryLongContent),
                  Seg(15, Num(50), Str("simple"), ShortContent)>>,
       spacing |-> 1],
      [segs |-> <<Seg(17, Num(50), Str("simple"), ShortContent),
                  Seg(3, Num(50), Str("simple"), LongContent)>>,
       spacing |-> 1],
      [segs |-> <<Scored(4, 60), Unscored(2), Scored(6, 50)>>,
       spacing |-> 30000] }

RECURSIVE expand(_)
expand(segs) ==
    IF segs = <<>> THEN <<>>
    ELSE [k \in 1..Head(segs).n |-> Head(segs)] \o expand(Tail(segs))

\* The rows of table prompts after the history: the oldest record was saved
\* first, so it has the smallest rowid, id and timestamp
HistoryRows(h) ==
    LET ranked == expand(h.segs)
        n == Len(ranked)
    IN  [j \in 1..n |->
            LET s == ranked[n + 1 - j]
            IN  [id |-> j,
                 content |-> Str(s.content),
                 timestamp |-> j * h.spacing,
                 context |-> JsNull,
                 conversation_id |-> JsNull,
                 quality_score |-> s.score,
                 complexity |-> s.complexity,
                 technique_used |-> IF s.score = JsNull THEN JsNull
                                    ELSE Str("Zero-Shot"),
                 metadata |-> JsNull]]

\* The server has just started over a store that holds one of these
\* histories
HistoryInit(histories) ==
    /\ \E h \in histories :
        /\ prompts = HistoryRows(h)
        /\ nextId = Len(HistoryRows(h)) + 1
        /\ now = Len(HistoryRows(h)) * h.spacing
    /\ responses = <<>>
    /\ insights = <<>>
    /\ result = NoResult
    /\ savedInput = {}
    /\ analysed = {}
    /\ EngineIdle
    /\ MinerIdle
    /\ CallsIdle
    /\ ServerIdle

MinerInit == HistoryInit(Histories)

\* The windows asked for: a day, a week, and the default of 30 days
MetricDays == {1, 7, 30}

\* One call of generateInsights, and the reads of the quality metrics
MinerNext ==
    \/ \E ties \in TieOrders : GenerateInsights(1, ties)
    \/ \E fault \in 0..saveInsightThrows, rounded \in BOOLEAN :
            Detect(1, fault, rounded)
    \/ \E saves \in BOOLEAN : Continue(1, saves)
    \/ \E days \in MetricDays : GetQualityMetrics(days)

SpecMiner == MinerInit /\ [][MinerNext]_vars

(***************************************************************************)
(* Claims about the quality-trend detector and the pass, checked under     *)
(* SpecMiner                                                               *)
(***************************************************************************)
\* Call p has run its detectors, and the quality-trend detector returned
Detected(p) ==
    /\ miner[p].pc \in {"saving", "resolved", "rejected"}
    /\ miner[p].fault # 1

QualityTypes == {"quality_decline", "quality_improvement"}

\* The insights of these types that call p found
FoundOfTypes(p, types) ==
    {i \in 1..Len(miner[p].insights) : miner[p].insights[i].type \in types}

ScoredCount(ps) == Cardinality({i \in 1..Len(ps) : IsNum(ps[i].qualityScore)})

AllScored(ps) == ScoredCount(ps) = Len(ps)

\* The mean, in tenths, of the scores of the records ranked from..to of a
\* window whose records are all scored (0 when there is none)
RECURSIVE RankSum(_, _, _)
RankSum(ps, from, to) ==
    IF from > to THEN 0
    ELSE IF from = to THEN ValueOf(ps[from].qualityScore)
    ELSE LET mid == (from + to) \div 2
         IN  RankSum(ps, from, mid) + RankSum(ps, mid + 1, to)

RankMean(ps, from, to) ==
    LET last == Min(Len(ps), to)
    IN  IF from > last THEN Frac(0, 1)
        ELSE Frac(RankSum(ps, from, last), last - from + 1)

\* C7 (as claimed): when fewer than 10 records of the window have a
\* non-null quality score, the quality-trend detector emits no insight,
\* however many unscored records the window holds.  The code counts the
\* unscored records too: their qualityScore is null, not undefined.
C7_SilentBelowTenScored ==
    \A p \in Passes :
        (Detected(p) /\ ScoredCount(miner[p].recentPrompts) < 10)
            => FoundOfTypes(p, QualityTypes) = {}

\* The premise of C8 for a window
DeclinePremise(ps) ==
    /\ Len(ps) > 50
    /\ AllScored(ps)
    /\ fracLess(RankMean(ps, 1, 50), fracPlus(RankMean(ps, 51, 100), -5))

\* C8: with more than 50 records in the window, all scored, and the mean of
\* the 50 most recent more than 0.5 below the mean of those ranked 51-100,
\* a pass finds exactly one quality_decline, of severity warning, and no
\* quality_improvement, and its evidence gives those two means.
C8_DeclineEmitted ==
    \A p \in Passes :
        (Detected(p) /\ DeclinePremise(miner[p].recentPrompts))
            => /\ Cardinality(FoundOfTypes(p, {"quality_decline"})) = 1
               /\ FoundOfTypes(p, {"quality_improvement"}) = {}
               /\ \A i \in FoundOfTypes(p, {"quality_decline"}) :
                    LET found == miner[p].insights[i]
                        ps == miner[p].recentPrompts
                    IN  /\ found.severity = "warning"
                        /\ fracEq(found.evidence.recentScore,
                                  RankMean(ps, 1, 50))
                        /\ fracEq(found.evidence.olderScore,
                                  RankMean(ps, 51, 100))

\* C8 witness: a pass over a window of more than 100 records, whose records
\* ranked beyond 100 score far lower, has found the decline.
C8_Witness ==
    \E p \in Passes :
        /\ Detected(p)
        /\ DeclinePremise(miner[p].recentPrompts)
        /\ Len(miner[p].recentPrompts) > 100
        /\ FoundOfTypes(p, {"quality_decline"}) # {}

\* The recent mean is exactly 0.5 below, or exactly 0.5 above, the older one
ExactlyHalfBelow(ps) ==
    fracEq(RankMean(ps, 1, 50), fracPlus(RankMean(ps, 51, 100), -5))

ExactlyHalfAbove(ps) ==
    fracEq(RankMean(ps, 1, 50), fracPlus(RankMean(ps, 51, 100), 5))

\* The scores of the window are multiples of 0.5 and both cohort means are
\* dyadic, so that the doubles the detector compares are the exact means
ExactWindow(ps) ==
    /\ exactInDoubles(slice(ps, 0, 50))
    /\ exactInDoubles(slice(ps, 50, 100))

\* C9 (as claimed): the thresholds are inclusive: a recent mean exactly 0.5
\* below the older mean gives quality_decline, exactly 0.5 above gives
\* quality_improvement.  Stated for the windows whose means the detector
\* computes exactly, where the outcome does not hang on a rounding error.
C9_ThresholdsInclusive ==
    \A p \in Passes :
        LET ps == miner[p].recentPrompts
        IN  (Detected(p) /\ Len(ps) > 50 /\ AllScored(ps) /\ ExactWindow(ps))
                => /\ ExactlyHalfBelow(ps)
                        => FoundOfTypes(p, {"quality_decline"}) # {}
                   /\ ExactlyHalfAbove(ps)
                        => FoundOfTypes(p, {"quality_improvement"}) # {}

\* C9 (amended): the thresholds are exclusive: over a window of more than
\* 50 scored records whose means are computed exactly, a recent mean exactly
\* 0.5 below or exactly 0.5 above the older mean gives no quality insight.
C9_ThresholdsExclusive ==
    \A p \in Passes :
        LET ps == miner[p].recentPrompts
        IN  (Detected(p) /\ Len(ps) > 50 /\ AllScored(ps) /\ ExactWindow(ps)
                /\ (ExactlyHalfBelow(ps) \/ ExactlyHalfAbove(ps)))
                => FoundOfTypes(p, QualityTypes) = {}

\* C9 witness: a pass over 50 records of score 5.0 that follow 10 of score
\* 5.5 has run its detectors and found no quality insight.
C9_Witness ==
    \E p \in Passes :
        LET ps == miner[p].recentPrompts
        IN  /\ Detected(p)
            /\ Len(ps) > 50 /\ AllScored(ps) /\ ExactWindow(ps)
            /\ ExactlyHalfBelow(ps)
            /\ FoundOfTypes(p, QualityTypes) = {}

\* The stored records of this day that have a quality score
ScoredOn(date) ==
    {i \in 1..Len(prompts) :
        /\ dayOf(prompts[i].timestamp) = date
        /\ prompts[i].quality_score # JsNull}

\* Those of them in the trailing window of this many days
ScoredOnWithin(date, days) ==
    {i \in ScoredOn(date) : inTrailingWindow(prompts[i].timestamp, days)}

\* The groups are of distinct days of the window, the most recent first
GroupsByDayDescending(rows, days) ==
    /\ \A k \in 1..Len(rows) :
        /\ rows[k].date >= dayOf(now - days * 86400)
        /\ rows[k].date <= dayOf(now)
    /\ \A k, l \in 1..Len(rows) : k < l => rows[k].date > rows[l].date

\* C22 (as claimed): getQualityMetrics returns at most one group per day
\* of the window, the most recent day first, and the count of each group is
\* the number of stored records of that day with a non-null quality score.
C22_GroupCountsWholeDay ==
    result.op = "getQualityMetrics" =>
        /\ GroupsByDayDescending(result.rows, result.days)
        /\ \A k \in 1..Len(result.rows) :
            result.rows[k].count = Cardinality(ScoredOn(result.rows[k].date))

\* C22 (amended): getQualityMetrics returns one group for each day on which
\* a record with a non-null quality score lies in the window (timestamp not
\* earlier than now minus the days, to the second) and no other group, the
\* most recent day first; the count of each group is the number of those
\* records of its day, so that records with a null score, and records of
\* the oldest day from before the start of the window, count nowhere.
C22_GroupCountsWithinWindow ==
    result.op = "getQualityMetrics" =>
        /\ GroupsByDayDescending(result.rows, result.days)
        /\ \A k \in 1..Len(result.rows) :
            /\ result.rows[k].count > 0
            /\ result.rows[k].count =
                  Cardinality(ScoredOnWithin(result.rows[k].date, result.days))
        /\ \A i \in 1..Len(prompts) :
            i \in ScoredOnWithin(dayOf(prompts[i].timestamp), result.days)
                => \E k \in 1..Len(result.rows) :
                        result.rows[k].date = dayOf(prompts[i].timestamp)

\* C22 witness: the metrics of one day have been read from a store whose
\* oldest day in the window has a scored record from before the start of
\* the window, and which holds records without a score.
C22_Witness ==
    /\ result.op = "getQualityMetrics"
    /\ Len(result.rows) > 1
    /\ \E k \in 1..Len(result.rows) :
        result.rows[k].count < Cardinality(ScoredOn(result.rows[k].date))
    /\ \E i \in 1..Len(prompts) : prompts[i].quality_score = JsNull

\* C23 (as claimed): over a window whose records are all scored, a
\* quality_improvement is found only when records ranked 51-100 exist and
\* the mean of the 50 most recent is at least 0.5 above theirs, and with 10
\* to 50 records no quality insight is found.  The code takes the mean of an
\* empty cohort to be 0 and compares with it.
C23_ImprovementNeedsOlderCohort ==
    \A p \in Passes :
        LET ps == miner[p].recentPrompts
        IN  (Detected(p) /\ AllScored(ps))
                => /\ FoundOfTypes(p, {"quality_improvement"}) # {}
                        => /\ Len(ps) > 50
                           /\ ~fracLess(RankMean(ps, 1, 50),
                                        fracPlus(RankMean(ps, 51, 100), 5))
                   /\ (Len(ps) >= 10 /\ Len(ps) <= 50)
                        => FoundOfTypes(p, QualityTypes) = {}

\* The records of a window without a context keyword, and those of them
\* with more than 50 characters
LackingContext(ps) ==
    LET lacking(r) == ~hasContextIndicators(contentOf(r))
    IN  SelectSeq(ps, lacking)

LongLackingContext(ps) ==
    LET long(r) == Len(contentOf(r)) > 50
    IN  SelectSeq(LackingContext(ps), long)

\* The ids of the first five records
FirstFiveIds(ps) == [k \in 1..Min(5, Len(ps)) |-> ps[k].id]

\* C27 (as claimed): the promptIds of a context_suggestion are the ids of
\* the first min(5, k) records of the window without a context keyword, k
\* being the number of such records.
C27_FirstFiveLackingContext ==
    \A p \in Passes :
        \A i \in FoundOfTypes(p, {"context_suggestion"}) :
            miner[p].insights[i].promptIds[2]
                = FirstFiveIds(LackingContext(miner[p].recentPrompts))

\* C27 (amended): the promptIds of a context_suggestion are the ids of the
\* first min(5, k) records of the window that have no context keyword and
\* more than 50 characters, k being the number of such records; every id
\* listed is that of a stored record without a context keyword, the list
\* has at most 5 ids, and no insight lists more than 10.
C27_FirstFiveLongLackingContext ==
    \A p \in Passes :
        /\ \A i \in FoundOfTypes(p, {"context_suggestion"}) :
            \E ids \in {miner[p].insights[i].promptIds[2]} :
                /\ Len(miner[p].recentPrompts) >= 20
                /\ ids = FirstFiveIds(LongLackingContext(miner[p].recentPrompts))
                /\ Len(ids) <= 5
                /\ \A k \in 1..Len(ids) :
                    \E j \in 1..Len(prompts) :
                        /\ prompts[j].id = ids[k]
                        /\ ~hasContextIndicators(ValueOf(prompts[j].content))
        /\ \A i \in 1..Len(miner[p].insights) :
            miner[p].insights[i].promptIds # JsUndefined
                => Len(miner[p].insights[i].promptIds[2]) <= 10

\* C27 witness: over a window whose 17 most recent records are short and
\* whose 3 oldest are longer than 50 characters, none with a context
\* keyword, a pass has found the suggestion, with the ids of those 3.
C27_Witness ==
    \E p \in Passes :
        \E i \in FoundOfTypes(p, {"context_suggestion"}) :
            /\ Len(LackingContext(miner[p].recentPrompts)) = 20
            /\ Len(miner[p].insights[i].promptIds[2]) = 3

\* Detectors 2..5 other than the one that threw, which find an insight in
\* the window of call p
OthersFinding(p) ==
    {k \in (2..5) \ {miner[p].fault} :
        detector(k, miner[p].recentPrompts, FALSE) # <<>>}

\* C10 (as claimed): when one detector throws, the other detectors still
\* run, every insight they find is saved, and the pass does not abort.
\* The code has no try/catch around a detector: the call rejects before any
\* saveInsight.
C10_DetectorFailuresIsolated ==
    \A p \in Passes :
        (miner[p].pc \in {"resolved", "rejected"} /\ miner[p].fault \in 1..5
            /\ OthersFinding(p) # {})
            => /\ miner[p].pc = "resolved"
               /\ \A k \in OthersFinding(p) :
                    LET found == detector(k, miner[p].recentPrompts, FALSE)
                    IN  \A i \in 1..Len(found) :
                            \E j \in 1..Len(insights) :
                                insights[j].type = found[i].type

(***************************************************************************)
(* SpecServer: the running server.  The log_prompt tool and the            *)
(* test-prompt route save and analyse prompts, the dashboard reads them,   *)
(* the cron jobs run, and generateInsights is called, all over a store     *)
(* that holds a short history.                                             *)
(***************************************************************************)
ServerHistories == { [segs |-> <<Scored(10, 60)>>, spacing |-> 1] }

ServerInit == HistoryInit(ServerHistories)

ServerNext ==
    \/ \E c \in Calls, in \in CallInputs : StartCall(c, in[1], in[2])
    \/ \E c \in Calls : AnalyzeCall(c)
    \/ \E c \in Calls, stored \in BOOLEAN : UpdateCall(c, stored)
    \/ \E c \in Calls : ReturnCall(c)
    \/ \E id \in SavedIds : GetPromptById(id)
    \/ \E ties \in TieOrders : GetPrompts(50, 0, ties)
    \/ WeeklyCleanup
    \/ \E ties \in TieOrders : GenerateInsights(1, ties)
    \/ \E rounded \in BOOLEAN : Detect(1, 0, rounded)
    \/ Continue(1, TRUE)

SpecServer == ServerInit /\ [][ServerNext]_vars

(***************************************************************************)
(* Claims about the calls and the history, checked under SpecServer        *)
(***************************************************************************)
\* The three analysis fields of a record as a read returns it, of a stored
\* row, and as call c hands them to updatePromptAnalysis
AnalysisOf(value) == <<value.qualityScore, value.complexity, value.techniqueUsed>>
AnalysisOfRow(row) == <<row.quality_score, row.complexity, row.technique_used>>
AnalysisOfCall(c) ==
    <<Num(calls[c].analysis.qualityScore), Str(calls[c].analysis.complexity),
      Str(calls[c].analysis.suggestedTechnique)>>

\* The records the read of this step returned
ReadRecords ==
    IF result.op = "getPrompts"
    THEN {result.rows[k] : k \in 1..Len(result.rows)}
    ELSE IF result.op = "getPromptById" /\ result.found
    THEN {result.value}
    ELSE {}

\* The calls that saved the record with this id
CallsOf(id) == {c \in Calls : calls[c].promptId = id}

\* C12: no read interleaved with log_prompt and test-prompt calls returns a
\* torn analysis: for every record a read returns, the three analysis fields
\* are all null, or all three are the values of the one updatePromptAnalysis
\* of the call that saved the record (a record of the earlier history holds
\* three values).
C12_NoTornAnalysis ==
    \A r \in ReadRecords :
        \/ AnalysisNull(r)
        \/ /\ r.id \in SavedIds
           /\ \E c \in CallsOf(r.id) :
                /\ calls[c].pc \in {"updated", "returned"}
                /\ AnalysisOf(r) = AnalysisOfCall(c)
        \/ /\ r.id \notin SavedIds
           /\ \A k \in 1..3 : AnalysisOf(r)[k] # JsNull

\* C12 witness: one read returned a record whose call has not updated it
\* yet, all null, next to a record that another call has updated.
C12_Witness ==
    /\ result.op = "getPrompts"
    /\ \E r \in ReadRecords :
        /\ AnalysisNull(r)
        /\ \E c \in CallsOf(r.id) : calls[c].pc = "analysed"
    /\ \E r \in ReadRecords :
        /\ r.id \in SavedIds
        /\ ~AnalysisNull(r)

\* C13 (as claimed): when a call reports an error to its caller, no record
\* that the call wrote remains in the store.  The code does not undo
\* savePrompt when analyzePrompt or updatePromptAnalysis throws.
C13_ErrorMeansNotApplied ==
    \A c \in Calls :
        calls[c].pc = "error" => calls[c].promptId \notin PromptIds

\* A step in which call c runs its updatePromptAnalysis
UpdateStepOf(c) == calls[c].pc = "analysed" /\ calls'[c].pc = "updated"

\* C14: the analysis of a record is written exactly once: the three stored
\* fields of a record change only in the update step of the call that saved
\* it, from null to that call's analysis, and once a call has returned the
\* stored fields of its record are the analysis it returned, whatever
\* happens later.
C14_AnalysisWrittenOnce ==
    [][/\ \A i \in 1..Len(prompts) :
            AnalysisOfRow(prompts'[i]) # AnalysisOfRow(prompts[i])
                => /\ AnalysisOfRow(prompts[i]) = <<JsNull, JsNull, JsNull>>
                   /\ \E c \in CallsOf(prompts[i].id) :
                        /\ UpdateStepOf(c)
                        /\ AnalysisOfRow(prompts'[i]) = AnalysisOfCall(c)
       /\ \A c \in Calls :
            calls'[c].pc = "returned"
                => \E i \in 1..Len(prompts') :
                        /\ prompts'[i].id = calls'[c].promptId
                        /\ AnalysisOfRow(prompts'[i]) =
                               <<Num(calls'[c].analysis.qualityScore),
                                 Str(calls'[c].analysis.complexity),
                                 Str(calls'[c].analysis.suggestedTechnique)>>
      ]_vars

\* C14 witness: both calls have returned, with different analyses, and a
\* generateInsights call has run since.
C14_Witness ==
    /\ \A c \in Calls : calls[c].pc = "returned"
    /\ calls[1].analysis # calls[2].analysis
    /\ miner[1].pc = "resolved"

\* The fields of a row other than the three analysis fields
IdentityOfRow(row) ==
    <<row.id, row.content, row.timestamp, row.context, row.conversation_id,
      row.metadata>>

PassHistories ==
    { [segs |-> <<>>, spacing |-> 1],
      [segs |-> <<Scored(10, 60)>>, spacing |-> 1],
      [segs |-> <<Seg(20, Num(80), Str("complex"), LongContent)>>,
       spacing |-> 1] }

PassesInit == HistoryInit(PassHistories)

PassesNext ==
    \/ \E p \in Passes, ties \in TieOrders : GenerateInsights(p, ties)
    \/ \E p \in Passes, fault \in 0..saveInsightThrows, rounded \in BOOLEAN :
            Detect(p, fault, rounded)
    \/ \E p \in Passes, saves \in BOOLEAN : Continue(p, saves)
    \/ \E ties \in TieOrders : GetUnacknowledgedInsights(ties)

SpecPasses == PassesInit /\ [][PassesNext]_vars

(***************************************************************************)
(* Claims about the calls of generateInsights, checked under SpecPasses    *)
(***************************************************************************)
\* Call p is between its read of the history and its last saveInsight
InProgress(p) == miner[p].pc \in {"detect", "saving"}

\* C11 (as claimed): at most one generateInsights call is in progress at any
\* time.  Nothing in the code keeps a second call from starting while the
\* first awaits.
C11_OnePassAtATime ==
    Cardinality({p \in Passes : InProgress(p)}) <= 1

InsightIds == {insights[i].id : i \in 1..Len(insights)}

\* The stored row with this id
InsightRow(id) == CHOOSE row \in {insights[i] : i \in 1..Len(insights)} : row.id = id

\* Call p has saved its first n insights, each once, in order, under the ids
\* its list will carry
SavedInOrder(p, n) ==
    LET ids == [k \in 1..n |->
                   IF k <= Len(miner[p].savedInsights)
                   THEN miner[p].savedInsights[k].id ELSE miner[p].id]
    IN  /\ \A k \in 1..n :
            /\ Cardinality({i \in 1..Len(insights) : insights[i].id = ids[k]}) = 1
            /\ InsightRow(ids[k]).type = miner[p].insights[k].type
            /\ InsightRow(ids[k]).severity = miner[p].insights[k].severity
            /\ InsightRow(ids[k]).evidence[2] = miner[p].insights[k].evidence
        /\ \A k, l \in 1..n : k < l => ids[k] < ids[l]
        /\ \A k \in 1..Len(miner[p].savedInsights) :
            miner[p].savedInsights[k].insight = miner[p].insights[k]

\* C16 (as claimed): a call of generateInsights saves each insight its
\* detectors produced exactly once and returns a list with one entry per
\* insight, in the same order, each with the id saveInsight gave it.  A
\* saveInsight that throws (as it does when the driver refuses the boolean
\* it is handed) ends the call with nothing returned.
C16_EveryInsightSaved ==
    \A p \in Passes :
        (miner[p].pc \in {"resolved", "rejected"} /\ miner[p].fault \notin 1..5)
            => /\ miner[p].pc = "resolved"
               /\ Len(miner[p].savedInsights) = Len(miner[p].insights)
               /\ SavedInOrder(p, Len(miner[p].insights))

\* The number of insights call p has saved so far
SavedBy(p) ==
    Len(miner[p].savedInsights) + (IF miner[p].pc = "saving" THEN 1 ELSE 0)

\* The number of insights calls 1..n have saved so far
RECURSIVE SavedUpTo(_)
SavedUpTo(n) == IF n = 0 THEN 0 ELSE SavedBy(n) + SavedUpTo(n - 1)

\* C30: nothing is deduplicated and nothing is acknowledged: the store holds
\* one row, with its own id and acknowledged = 0, for every insight any call
\* has saved; getUnacknowledgedInsights returns them all; two calls that
\* read the same window and returned have saved the same insights in the
\* same order under different ids; and when every call has returned, the
\* store holds as many insights as there were calls times those of one.
C30_NoDeduplication ==
    /\ Len(insights) = SavedUpTo(MaxPasses)
    /\ \A i \in 1..Len(insights) : insights[i].acknowledged = 0
    /\ \A i, j \in 1..Len(insights) :
            i # j => insights[i].id # insights[j].id
    /\ result.op = "getUnacknowledgedInsights"
        => /\ Len(result.rows) = Len(insights)
           /\ {result.rows[k].id : k \in 1..Len(result.rows)} = InsightIds
           /\ \A k \in 1..Len(result.rows) : ~result.rows[k].acknowledged
    /\ \A p, q \in Passes :
        (/\ p # q
         /\ miner[p].pc = "resolved"
         /\ miner[q].pc = "resolved"
         /\ miner[p].recentPrompts = miner[q].recentPrompts)
            => /\ Len(miner[p].savedInsights) = Len(miner[q].savedInsights)
               /\ \A k \in 1..Len(miner[p].savedInsights) :
                    /\ miner[p].savedInsights[k].insight =
                          miner[q].savedInsights[k].insight
                    /\ miner[p].savedInsights[k].id #
                          miner[q].savedInsights[k].id
    /\ (\A p \in Passes : miner[p].pc = "resolved")
        => Len(insights) = MaxPasses * Len(miner[1].savedInsights)

\* C30 witness: both calls have returned three insights over the same
\* history, and getUnacknowledgedInsights lists six.
C30_Witness ==
    /\ \A p \in Passes :
        /\ miner[p].pc = "resolved"
        /\ Len(miner[p].savedInsights) = 3
    /\ result.op = "getUnacknowledgedInsights"
    /\ Len(result.rows) = MaxPasses * 3

\* C17: no step removes or alters a stored insight, and the insights a call
\* has saved are in the store, unchanged, whether the call goes on, returns
\* or fails.
C17_SavedInsightsRemain ==
    [][/\ Len(insights') >= Len(insights)
       /\ \A i \in 1..Len(insights) : insights'[i] = insights[i]
       /\ \A p \in Passes :
            /\ SavedBy(p) <= Len(miner'[p].insights)
            /\ \A k \in 1..SavedBy(p) :
                \E i \in 1..Len(insights') :
                    /\ insights'[i].type = miner'[p].insights[k].type
                    /\ insights'[i].evidence[2] = miner'[p].insights[k].evidence
                    /\ insights'[i].id \in
                          {miner'[p].savedInsights[j].id :
                               j \in 1..Len(miner'[p].savedInsights)}
                            \cup {miner'[p].id}
      ]_vars

\* C17 witness: a call has failed in saveInsight after it had saved two
\* insights, which the dashboard lists, while the other call has saved its
\* own.
C17_Witness ==
    /\ result.op = "getUnacknowledgedInsights"
    /\ \E p \in Passes :
        /\ miner[p].pc = "rejected"
        /\ miner[p].fault = saveInsightThrows
        /\ Len(miner[p].savedInsights) = 2
        /\ \A k \in 1..2 :
            \E j \in 1..Len(result.rows) :
                /\ result.rows[j].id = miner[p].savedInsights[k].id
                /\ result.rows[j].type = miner[p].insights[k].type
        /\ \E q \in Passes \ {p} : Len(miner[q].savedInsights) > 0

(***************************************************************************)
(* determineComplexity called on its own, on a text that grows from call   *)
(* to call while the structure handed to it stays the same.                *)
(***************************************************************************)
MaxWords == 210

\* Texts to start from: plain, with a multi-part marker, with a technical
\* word, with both
ComplexityBases ==
    {"fix it", "fix this and that, now", "fix the code",
     "fix the code and the tests"}

\* The steps by which the text grows: none, 49 or 50 words (from 2 words
\* to 100 and to 101, to 200 and to 201), and enough to cross both
\* thresholds at once
WordSteps == {0, 49, 50, 200}

\* Structures as analyzeStructure returns them, over the four signals
ComplexityStructures ==
    {[hasContext |-> a, hasExamples |-> b, hasConstraints |-> c,
      hasExpectedOutput |-> d, clarityScore |-> 1000] :
        a \in BOOLEAN, b \in BOOLEAN, c \in BOOLEAN, d \in BOOLEAN}

ComplexityInit ==
    /\ prompt \in ComplexityBases
    /\ analysis \in {[state |-> "given", structure |-> s] :
                        s \in ComplexityStructures}
    /\ StoreInit
    /\ MinerIdle
    /\ CallsIdle
    /\ ServerIdle

\* determineComplexity(prompt, structure) on the text grown by n words
DetermineComplexity(n) ==
    /\ \E longer \in {prompt \o Repeat(" x", n)} :
       \E words \in {Len(split(longer, SpaceChars))} :
            /\ words <= MaxWords
            /\ prompt' = longer
            /\ analysis' =
                 [state |-> "determined",
                  structure |-> analysis.structure,
                  words |-> words,
                  score |-> complexityScore(longer, analysis.structure),
                  complexity |-> determineComplexity(longer, analysis.structure)]
    /\ UNCHANGED <<storeVars, result, historyVars, miner, calls, server>>

ComplexityNext == \E n \in WordSteps : DetermineComplexity(n)

SpecComplexity == ComplexityInit /\ [][ComplexityNext]_vars

\* simple < moderate < complex
TierRank(complexity) ==
    CASE complexity = "simple" -> 1
      [] complexity = "moderate" -> 2
      [] complexity = "complex" -> 3

\* C18: from one call of determineComplexity to the next on a text with at
\* least as many words, the structure, the multi-part marker and the
\* technical-vocabulary flag being the same, the complexity score does not
\* decrease, the tier does not fall, and the score rises by at most 2.
C18_ComplexityMonotonic ==
    [][(/\ analysis.state = "determined"
        /\ analysis'.state = "determined"
        /\ analysis'.words >= analysis.words
        /\ analysis'.structure = analysis.structure
        /\ multipleRequests(prompt') = multipleRequests(prompt)
        /\ detectTechnicalContent(prompt') = detectTechnicalContent(prompt))
       => /\ analysis'.score >= analysis.score
          /\ analysis'.score <= analysis.score + 2
          /\ TierRank(analysis'.complexity) >= TierRank(analysis.complexity)
      ]_vars

\* C18 witness: a text of more than 200 words whose other contributions
\* add up to 1 has been classified: score 3, moderate, where the same text
\* with few words is simple.
C18_Witness ==
    /\ analysis.state = "determined"
    /\ analysis.words > 200
    /\ analysis.score = 3
    /\ analysis.complexity = "moderate"

\* One point for a true condition
Point(b) == IF b THEN 1 ELSE 0

\* C24: the tier depends on the score only (up to 2 simple, 3 and 4
\* moderate, 5 and more complex), the score is the length points plus one
\* point each for hasContext, hasExamples, hasConstraints, the multi-part
\* marker and the technical vocabulary, and the same call with
\* hasExpectedOutput flipped gives the same tier.
C24_TierFromScore ==
    analysis.state = "determined" =>
        /\ analysis.complexity =
              (IF analysis.score <= 2 THEN "simple"
               ELSE IF analysis.score <= 4 THEN "moderate" ELSE "complex")
        /\ analysis.score =
              Point(analysis.words > 100) + Point(analysis.words > 200)
              + Point(analysis.structure.hasContext)
              + Point(analysis.structure.hasExamples)
              + Point(analysis.structure.hasConstraints)
              + Point(multipleRequests(prompt))
              + Point(detectTechnicalContent(prompt))
        /\ determineComplexity(prompt,
              [analysis.structure EXCEPT !.hasExpectedOutput = ~@])
                = analysis.complexity

\* C24 witness: a call with hasExpectedOutput true has got the boundary
\* score 4 and the tier moderate.
C24_Witness ==
    /\ analysis.state = "determined"
    /\ analysis.structure.hasExpectedOutput
    /\ analysis.score = 4
    /\ analysis.complexity = "moderate"

(***************************************************************************)
(* The last three steps of analyzePrompt (selectTechnique,                 *)
(* calculateQualityScore, getTechniqueRationale) on every complexity,      *)
(* structure and list of issues of the declared types, whether or not a    *)
(* text exists from which the earlier steps compute them.                  *)
(***************************************************************************)
Complexities == {"simple", "moderate", "complex"}

\* calculateClarityScore moves in steps of 0.5 between 0 and 10
ClarityScores == {50 * k : k \in 0..20}

Structures ==
    {[hasContext |-> a, hasExamples |-> b, hasConstraints |-> c,
      hasExpectedOutput |-> d, clarityScore |-> e] :
        a \in BOOLEAN, b \in BOOLEAN, c \in BOOLEAN, d \in BOOLEAN,
        e \in ClarityScores}

IssueLists ==
    {<<>>,
     <<[type |-> "ambiguity", severity |-> "medium"]>>,
     <<[type |-> "too_broad", severity |-> "high"],
       [type |-> "ambiguity", severity |-> "medium"],
       [type |-> "bias", severity |-> "low"]>>}

StepsInit ==
    /\ prompt = ""
    /\ analysis \in {[state |-> "given", complexity |-> c, structure |-> s,
                      issues |-> i] :
                        c \in Complexities, s \in Structures, i \in IssueLists}
    /\ StoreInit
    /\ MinerIdle
    /\ CallsIdle
    /\ ServerIdle

\* const suggestedTechnique = this.selectTechnique(complexity, structure)
SelectTechnique ==
    /\ analysis.state = "given"
    /\ analysis' =
         [state |-> "selected",
          complexity |-> analysis.complexity,
          structure |-> analysis.structure,
          issues |-> analysis.issues,
          suggestedTechnique |->
              selectTechnique(analysis.complexity, analysis.structure)]
    /\ UNCHANGED prompt
    /\ UNCHANGED <<storeVars, result, historyVars, miner, calls, server>>

\* const qualityScore = this.calculateQualityScore(structure, issues)
CalculateQualityScore ==
    /\ analysis.state = "selected"
    /\ analysis' =
         [state |-> "scored",
          complexity |-> analysis.complexity,
          structure |-> analysis.structure,
          issues |-> analysis.issues,
          suggestedTechnique |-> analysis.suggestedTechnique,
          qualityScore |->
              calculateQualityScore(analysis.structure, analysis.issues)]
    /\ UNCHANGED prompt
    /\ UNCHANGED <<storeVars, result, historyVars, miner, calls, server>>

\* techniqueRationale: this.getTechniqueRationale(suggestedTechnique,
\* complexity)
GetTechniqueRationale ==
    /\ analysis.state = "scored"
    /\ analysis' =
         [state |-> "returned",
          complexity |-> analysis.complexity,
          structure |-> analysis.structure,
          issues |-> analysis.issues,
          suggestedTechnique |-> analysis.suggestedTechnique,
          qualityScore |-> analysis.qualityScore,
          techniqueRationale |->
              getTechniqueRationale(analysis.suggestedTechnique,
                                    analysis.complexity)]
    /\ UNCHANGED prompt
    /\ UNCHANGED <<storeVars, result, historyVars, miner, calls, server>>

StepsNext ==
    \/ SelectTechnique
    \/ CalculateQualityScore
    \/ GetTechniqueRationale

SpecSteps == StepsInit /\ [][StepsNext]_vars

\* The table of the selector, row by row
TechniqueTable ==
    [c \in Complexities |->
        [s \in Structures |->
            CASE c = "simple" /\ s.hasExpectedOutput -> "Direct Question"
              [] c = "simple" /\ ~s.hasExpectedOutput -> "Zero-Shot"
              [] c = "moderate" /\ s.hasExamples -> "Few-Shot"
              [] c = "moderate" /\ ~s.hasExamples /\ s.hasContext -> "Role-Based"
              [] c = "moderate" /\ ~s.hasExamples /\ ~s.hasContext ->
                    "Chain of Thought"
              [] c = "complex" /\ s.hasConstraints /\ s.hasContext -> "ReAct"
              [] c = "complex" /\ s.hasConstraints /\ ~s.hasContext
                    /\ s.hasExpectedOutput -> "Multi-Step Reasoning"
              [] c = "complex"
                    /\ ~(s.hasConstraints /\ s.hasContext)
                    /\ ~(s.hasConstraints /\ s.hasExpectedOutput) ->
                    "Tree of Thoughts"]]

FallbackRationale == "Selected based on prompt complexity and structure"

\* C19: for every tier and every combination of the four signals the
\* selected technique is the one the table gives, it belongs to the list of
\* techniques declared for the tier, and the rationale returned for it is
\* never the generic fallback.
C19_SelectorMatchesTable ==
    /\ analysis.state \in {"selected", "scored", "returned"}
        => /\ analysis.suggestedTechnique =
                TechniqueTable[analysis.complexity][analysis.structure]
           /\ analysis.suggestedTechnique \in techniques(analysis.complexity)
    /\ analysis.state = "returned"
        => analysis.techniqueRationale # FallbackRationale

\* C19 witness: a moderate prompt with both examples and context, for which
\* the order of the tests decides, has got Few-Shot and its rationale.
C19_Witness ==
    /\ analysis.state = "returned"
    /\ analysis.complexity = "moderate"
    /\ analysis.structure.hasExamples
    /\ analysis.structure.hasContext
    /\ analysis.suggestedTechnique = "Few-Shot"
    /\ analysis.techniqueRationale =
          "Examples provided to guide the model's response format"

\* C20: with all four structural signals true and no issue, the quality
\* score is at least 9.0 (90 in tenths), whatever the clarity score.
C20_FullStructureScoresHigh ==
    (/\ analysis.state \in {"scored", "returned"}
     /\ analysis.structure.hasContext
     /\ analysis.structure.hasExamples
     /\ analysis.structure.hasConstraints
     /\ analysis.structure.hasExpectedOutput
     /\ analysis.issues = <<>>)
        => analysis.qualityScore >= 90

\* C20 witness: all four signals, no issue and the lowest clarity score, 0,
\* have been scored: 10.0.
C20_Witness ==
    /\ analysis.state = "scored"
    /\ analysis.structure.hasContext
    /\ analysis.structure.hasExamples
    /\ analysis.structure.hasConstraints
    /\ analysis.structure.hasExpectedOutput
    /\ analysis.issues = <<>>
    /\ analysis.structure.clarityScore = 0
    /\ analysis.qualityScore = 100


LifecycleInit == StoreInit /\ EngineIdle /\ MinerIdle /\ CallsIdle /\ ServerConstructed

LifecycleNext ==
    \/ \E t \in Tasks, fails \in BOOLEAN : ServerStart(t, fails)
    \/ \E t \in Tasks, fails \in BOOLEAN : ServerStartHandler(t, fails)
    \/ \E t \in Tasks, fails \in BOOLEAN : ServerStartDashboard(t, fails)
    \/ \E t \in Tasks : ServerStarted(t)
    \/ \E t \in Tasks : Shutdown(t)
    \/ \E t \in Tasks : ShutdownDashboard(t)
    \/ \E t \in Tasks : DashboardClosed(t)
    \/ \E t \in Tasks : ShutdownDone(t)

SpecLifecycle == LifecycleInit /\ [][LifecycleNext]_vars

(***************************************************************************)
(* C28: if start() fails partway (storage initialised, or the MCP handler  *)
(* started, and a later step throws), then after start() has rejected no   *)
(* component is left running: every component that was started has been    *)
(* stopped and the storage has been closed.  The case is taken with no     *)
(* other call of start() or shutdown() in the run.                         *)
(***************************************************************************)
aloneInRun(t) == \A u \in Tasks \ {t} : server.tasks[u].kind = "none"

C28_FailedStartLeavesNothingRunning ==
    \A t \in Tasks :
        (/\ server.tasks[t].kind = "start"
         /\ server.tasks[t].pc = "rejected"
         /\ server.tasks[t].failedAt \in {"mcpHandler", "dashboard"}
         /\ aloneInRun(t))
        => /\ server.handler # "connected"
           /\ ~server.dashboard.isRunning
           /\ server.db = "closed"

(***************************************************************************)
(* C29: within one run of the server each component is stopped and the     *)
(* storage is closed at most once, even when shutdown() is invoked again   *)
(* while an earlier shutdown is still awaiting a component's stop; and     *)
(* start() invoked while a previous start() is still in progress does not  *)
(* initialise or start any component a second time.                        *)
(***************************************************************************)
C29_StoppedAndStartedOnce ==
    /\ server.handlerStops <= 1
    /\ server.dashboardStops <= 1
    /\ server.closes <= 1
    /\ \A t \in Tasks : server.tasks[t].overlapped => server.tasks[t].did = {}

=============================================================================
